---- MODULE Spec2Model ----
(***************************************************************************)
(* A model of the Mullvad relay selector: the constraint algebra           *)
(* (mullvad-types/src/relay_constraints.rs), the retry ladder and the      *)
(* get_relay dispatch (mullvad-relay-selector/src/relay_selector.rs), the  *)
(* relay matchers (relay_selector/matcher.rs) and the samplers             *)
(* (relay_selector/helpers.rs).                                            *)
(*                                                                         *)
(* Representation.  Constraint<T> is a set with at most one element:       *)
(* Any is {} and Only(v) is {v}.  Option<T> is a sequence with at most one *)
(* element: None is <<>> and Some(v) is <<v>>.  A random draw is the set   *)
(* of values the draw can produce.                                         *)
(***************************************************************************)
EXTENDS Integers, Sequences, FiniteSets

VARIABLES config, parsed_relays, result, callers, poisoned

vars == <<config, parsed_relays, result, callers, poisoned>>

----------------------------------------------------------------------------
(* Constraint<T> and Option<T> *)

Any == {}

Only(v) == {v}

IsAny(c) == c = {}

IsOnly(c) == c # {}

Unwrap(c) == CHOOSE v \in c : TRUE

None == <<>>

Some(v) == <<v>>

\* Intersection of primitive values (u16, bool, IpVersion, TunnelType, ...):
\* equality.
IntersectionEq(x, y) == IF x = y THEN Some(x) ELSE None

\* Constraint<T>::intersection where inner is the meet of the two Only
\* values: Any is the identity, and two Only values meet through inner.
ConstraintMeet(a, b, inner) ==
    IF IsAny(a) THEN Some(b)
    ELSE IF IsAny(b) THEN Some(a)
    ELSE IF inner = None THEN None ELSE Some(Only(inner[1]))

\* Constraint<T>::intersection for a primitive T
ConstraintIntersectionEq(a, b) ==
    ConstraintMeet(a, b, IF IsOnly(a) /\ IsOnly(b)
                         THEN IntersectionEq(Unwrap(a), Unwrap(b)) ELSE None)

\* TransportPort { protocol, port: Constraint<u16> }: componentwise meet.
TransportPortIntersection(x, y) ==
    LET port == ConstraintIntersectionEq(x.port, y.port)
    IN  IF x.protocol # y.protocol \/ port = None THEN None
        ELSE Some([protocol |-> x.protocol, port |-> port[1]])

\* Constraint<TransportPort>::intersection
ConstraintTransportPortIntersection(a, b) ==
    ConstraintMeet(a, b, IF IsOnly(a) /\ IsOnly(b)
                         THEN TransportPortIntersection(Unwrap(a), Unwrap(b))
                         ELSE None)

\* Udp2TcpObfuscationSettings { port: Constraint<u16> }: componentwise meet.
Udp2TcpObfuscationSettingsIntersection(x, y) ==
    LET port == ConstraintIntersectionEq(x.port, y.port)
    IN  IF port = None THEN None ELSE Some([port |-> port[1]])

\* Constraint<Udp2TcpObfuscationSettings>::intersection
ConstraintUdp2TcpIntersection(a, b) ==
    ConstraintMeet(a, b,
        IF IsOnly(a) /\ IsOnly(b)
        THEN Udp2TcpObfuscationSettingsIntersection(Unwrap(a), Unwrap(b))
        ELSE None)

\* A mutation of the SelectedObfuscation intersection: Auto is a value like
\* the others, and two values meet only when they are equal.
SelectedObfuscationIntersectionEqual(left, right) ==
    IF left = right THEN Some(left) ELSE None

\* A mutation of the SelectedObfuscation intersection: of two values that
\* are not Auto the left one is kept.
SelectedObfuscationIntersectionLeft(left, right) ==
    IF right = "Auto" THEN Some(left)
    ELSE IF left = "Auto" THEN Some(right)
    ELSE Some(left)

\* A mutation of the SelectedObfuscation intersection: Auto on the right
\* absorbs the left value.
SelectedObfuscationIntersectionAutoAbsorbs(left, right) ==
    IF right = "Auto" THEN Some("Auto")
    ELSE IF left = "Auto" THEN Some(right)
    ELSE IF left = right THEN Some(left)
    ELSE None

\* impl Intersection for SelectedObfuscation
SelectedObfuscationIntersection(left, right) ==
    IF right = "Auto" THEN Some(left)
    ELSE IF left = "Auto" THEN Some(right)
    ELSE IF left = right THEN Some(left)
    ELSE None

\* A mutation of the WireGuard filter intersection: a port that self
\* constrains is kept, whatever port other asks for.
WireguardConstraintsFilterIntersectionSelfWins(self, other) ==
    LET port == IF IsOnly(self.port) THEN Some(self.port) ELSE Some(other.port)
        ip_version == ConstraintIntersectionEq(self.ip_version, other.ip_version)
        use_multihop == ConstraintIntersectionEq(self.use_multihop, other.use_multihop)
        entry_location ==
            ConstraintIntersectionEq(self.entry_location, other.entry_location)
        obfuscation ==
            SelectedObfuscationIntersection(self.obfuscation, other.obfuscation)
        udp2tcp_port ==
            ConstraintUdp2TcpIntersection(self.udp2tcp_port, other.udp2tcp_port)
    IN  IF \/ ip_version = None
           \/ use_multihop = None
           \/ entry_location = None
           \/ obfuscation = None
           \/ udp2tcp_port = None
        THEN None
        ELSE Some([port |-> port[1],
                   ip_version |-> ip_version[1],
                   use_multihop |-> use_multihop[1],
                   entry_location |-> entry_location[1],
                   obfuscation |-> obfuscation[1],
                   udp2tcp_port |-> udp2tcp_port[1]])

\* impl Intersection for WireguardConstraintsFilter
WireguardConstraintsFilterIntersection(self, other) ==
    LET port == ConstraintIntersectionEq(self.port, other.port)
        ip_version == ConstraintIntersectionEq(self.ip_version, other.ip_version)
        use_multihop == ConstraintIntersectionEq(self.use_multihop, other.use_multihop)
        entry_location ==
            ConstraintIntersectionEq(self.entry_location, other.entry_location)
        obfuscation ==
            SelectedObfuscationIntersection(self.obfuscation, other.obfuscation)
        udp2tcp_port ==
            ConstraintUdp2TcpIntersection(self.udp2tcp_port, other.udp2tcp_port)
    IN  IF \/ port = None
           \/ ip_version = None
           \/ use_multihop = None
           \/ entry_location = None
           \/ obfuscation = None
           \/ udp2tcp_port = None
        THEN None
        ELSE Some([port |-> port[1],
                   ip_version |-> ip_version[1],
                   use_multihop |-> use_multihop[1],
                   entry_location |-> entry_location[1],
                   obfuscation |-> obfuscation[1],
                   udp2tcp_port |-> udp2tcp_port[1]])

\* A mutation of the OpenVPN filter intersection: bridge settings that
\* disagree meet in Any instead of failing.
OpenVpnConstraintsFilterIntersectionLenient(self, other) ==
    LET port == ConstraintTransportPortIntersection(self.port, other.port)
        bridge_settings ==
            ConstraintIntersectionEq(self.bridge_settings, other.bridge_settings)
    IN  IF port = None THEN None
        ELSE Some([port |-> port[1],
                   bridge_settings |-> IF bridge_settings = None THEN Any
                                       ELSE bridge_settings[1]])

\* impl Intersection for OpenVpnConstraintsFilter
OpenVpnConstraintsFilterIntersection(self, other) ==
    LET port == ConstraintTransportPortIntersection(self.port, other.port)
        bridge_settings ==
            ConstraintIntersectionEq(self.bridge_settings, other.bridge_settings)
    IN  IF port = None \/ bridge_settings = None THEN None
        ELSE Some([port |-> port[1], bridge_settings |-> bridge_settings[1]])

\* impl Intersection for RelayConstraintsFilter
RelayConstraintsFilterIntersection(self, other) ==
    LET location == ConstraintIntersectionEq(self.location, other.location)
        providers == ConstraintIntersectionEq(self.providers, other.providers)
        ownership == ConstraintIntersectionEq(self.ownership, other.ownership)
        tunnel_protocol ==
            ConstraintIntersectionEq(self.tunnel_protocol, other.tunnel_protocol)
        wireguard_constraints ==
            WireguardConstraintsFilterIntersection(self.wireguard_constraints,
                                                   other.wireguard_constraints)
        openvpn_constraints ==
            OpenVpnConstraintsFilterIntersection(self.openvpn_constraints,
                                                 other.openvpn_constraints)
    IN  IF \/ location = None
           \/ providers = None
           \/ ownership = None
           \/ tunnel_protocol = None
           \/ wireguard_constraints = None
           \/ openvpn_constraints = None
        THEN None
        ELSE Some([location |-> location[1],
                   providers |-> providers[1],
                   ownership |-> ownership[1],
                   tunnel_protocol |-> tunnel_protocol[1],
                   wireguard_constraints |-> wireguard_constraints[1],
                   openvpn_constraints |-> openvpn_constraints[1]])

----------------------------------------------------------------------------
(* The filter constructors and the type-state builder *)

\* WireguardConstraintsFilter::new
WireguardConstraintsFilterNew ==
    [port |-> Any,
     ip_version |-> Any,
     use_multihop |-> Any,
     entry_location |-> Any,
     obfuscation |-> "Auto",
     udp2tcp_port |-> Any]

\* OpenVpnConstraintsFilter::new
OpenVpnConstraintsFilterNew == [port |-> Any, bridge_settings |-> Any]

\* RelayConstraintsFilter::new
RelayConstraintsFilterNew ==
    [location |-> Any,
     providers |-> Any,
     ownership |-> Any,
     tunnel_protocol |-> Any,
     wireguard_constraints |-> WireguardConstraintsFilterNew,
     openvpn_constraints |-> OpenVpnConstraintsFilterNew]

\* builder::any(), builder::wireguard::new() and builder::openvpn::new() all
\* start from RelayConstraintBuilder::new, whose constraints are
\* RelayConstraintsFilter::new(); the protocol lives in the type state only.
builder_any == RelayConstraintsFilterNew

wireguard_new == RelayConstraintsFilterNew

openvpn_new == RelayConstraintsFilterNew

\* builder::wireguard: port
wireguard_port(b, port) == [b EXCEPT !.wireguard_constraints.port = Only(port)]

\* builder::wireguard: ip_version
wireguard_ip_version(b, v) ==
    [b EXCEPT !.wireguard_constraints.ip_version = Only(v)]

\* builder::wireguard: udp2tcp
wireguard_udp2tcp(b) ==
    [b EXCEPT !.wireguard_constraints.udp2tcp_port = Only([port |-> Any])]

\* builder::openvpn: transport_protocol
openvpn_transport_protocol(b, protocol) ==
    [b EXCEPT !.openvpn_constraints.port =
                  Only([protocol |-> protocol, port |-> Any])]

\* builder::openvpn: port (after transport_protocol)
openvpn_port(b, port) ==
    [b EXCEPT !.openvpn_constraints.port =
                  Only([protocol |-> Unwrap(b.openvpn_constraints.port).protocol,
                        port |-> Only(port)])]

\* BridgeConstraints with nothing constrained
BridgeConstraintsAny == [location |-> Any, providers |-> Any, ownership |-> Any]

\* BridgeSettingsFilter values
BridgeSettingsFilterOff ==
    [kind |-> "Off", normal |-> BridgeConstraintsAny, custom |-> None]

BridgeSettingsFilterAuto ==
    [kind |-> "Auto", normal |-> BridgeConstraintsAny, custom |-> None]

BridgeSettingsFilterNormal(constraints) ==
    [kind |-> "Normal", normal |-> constraints, custom |-> None]

BridgeSettingsFilterCustom(proxy) ==
    [kind |-> "Custom", normal |-> BridgeConstraintsAny, custom |-> proxy]

\* builder::openvpn: bridge
openvpn_bridge(b) ==
    [b EXCEPT !.openvpn_constraints.bridge_settings =
                  Only(BridgeSettingsFilterNormal(BridgeConstraintsAny))]

\* A mutation of RETRY_ORDER: only rows that constrain a port or the IP
\* version, and no unconstrained row.
RETRY_ORDER_constrained_rows ==
    << wireguard_port(wireguard_new, 443),
       wireguard_ip_version(wireguard_new, "V6"),
       openvpn_port(openvpn_transport_protocol(openvpn_new, "Tcp"), 443) >>

\* RETRY_ORDER, rows 0..7 at positions 1..8
RETRY_ORDER ==
    << builder_any,
       wireguard_new,
       wireguard_port(wireguard_new, 443),
       wireguard_ip_version(wireguard_new, "V6"),
       openvpn_port(openvpn_transport_protocol(openvpn_new, "Tcp"), 443),
       wireguard_udp2tcp(wireguard_new),
       wireguard_ip_version(wireguard_udp2tcp(wireguard_new), "V6"),
       openvpn_bridge(openvpn_transport_protocol(openvpn_new, "Tcp")) >>

----------------------------------------------------------------------------
(* Locations and the relay predicates *)

\* GeographicLocationConstraint::Country / City / Hostname
Country(country) ==
    [kind |-> "Country", country |-> country, city |-> "", hostname |-> ""]

City(country, city) ==
    [kind |-> "City", country |-> country, city |-> city, hostname |-> ""]

Hostname(country, city, hostname) ==
    [kind |-> "Hostname", country |-> country, city |-> city,
     hostname |-> hostname]

\* LocationConstraint::Location / CustomList
Location(geo) == [kind |-> "Location", location |-> geo, list_id |-> ""]

CustomList(list_id) ==
    [kind |-> "CustomList", location |-> Country(""), list_id |-> list_id]

\* A mutation of ResolvedLocationConstraint::from_constraint: a custom list
\* that does not exist resolves to Any.
from_constraint_missing_is_any(location, custom_lists) ==
    IF IsAny(location) THEN Any
    ELSE LET l == Unwrap(location)
         IN  IF l.kind = "Location"
             THEN Only([kind |-> "Location", locations |-> {l.location}])
             ELSE LET found == {list \in custom_lists : list.id = l.list_id}
                  IN  IF found # {}
                      THEN Only([kind |-> "Locations",
                                 locations |-> (CHOOSE list \in found : TRUE).locations])
                      ELSE Any

\* ResolvedLocationConstraint::from_constraint; a custom list that does not
\* exist resolves to Only(Locations(vec![])).
from_constraint(location, custom_lists) ==
    IF IsAny(location) THEN Any
    ELSE LET l == Unwrap(location)
         IN  IF l.kind = "Location"
             THEN Only([kind |-> "Location", locations |-> {l.location}])
             ELSE LET found == {list \in custom_lists : list.id = l.list_id}
                  IN  IF found # {}
                      THEN Only([kind |-> "Locations",
                                 locations |-> (CHOOSE list \in found : TRUE).locations])
                      ELSE Only([kind |-> "Locations", locations |-> {}])

\* A mutation of GeographicLocationConstraint::matches_with_opts: the
\* include_in_country attribute is never looked at.
geo_matches_with_opts_ignoring(geo, relay, ignore_include_in_country) ==
    CASE geo.kind = "Country" -> relay.country_code = geo.country
      [] geo.kind = "City" ->
            relay.country_code = geo.country /\ relay.city_code = geo.city
      [] OTHER ->
            /\ relay.country_code = geo.country
            /\ relay.city_code = geo.city
            /\ relay.hostname = geo.hostname

\* GeographicLocationConstraint::matches_with_opts
geo_matches_with_opts(geo, relay, ignore_include_in_country) ==
    CASE geo.kind = "Country" ->
            /\ relay.country_code = geo.country
            /\ (ignore_include_in_country \/ relay.include_in_country)
      [] geo.kind = "City" ->
            relay.country_code = geo.country /\ relay.city_code = geo.city
      [] OTHER ->
            /\ relay.country_code = geo.country
            /\ relay.city_code = geo.city
            /\ relay.hostname = geo.hostname

\* Constraint<ResolvedLocationConstraint>::matches_with_opts
matches_with_opts(locations, relay, ignore_include_in_country) ==
    \/ IsAny(locations)
    \/ /\ IsOnly(locations)
       /\ \E loc \in Unwrap(locations).locations :
              geo_matches_with_opts(loc, relay, ignore_include_in_country)

\* A mutation of filter_on_active: inactive relays pass.
filter_on_active_all(relay) == TRUE

filter_on_active(relay) == relay.active

filter_on_location(filter, relay) == matches_with_opts(filter, relay, TRUE)

\* impl Match<Relay> for Ownership, under Constraint::matches
filter_on_ownership(filter, relay) ==
    \/ IsAny(filter)
    \/ /\ IsOnly(filter)
       /\ IF Unwrap(filter) = "MullvadOwned" THEN relay.owned ELSE ~relay.owned

\* impl Match<Relay> for Providers, under Constraint::matches
filter_on_providers(filter, relay) ==
    \/ IsAny(filter)
    \/ /\ IsOnly(filter)
       /\ relay.provider \in Unwrap(filter)

filter_openvpn(relay) == relay.endpoint_data = "Openvpn"

filter_wireguard(relay) == relay.endpoint_data = "Wireguard"

filter_bridge(relay) == relay.endpoint_data = "Bridge"

openvpn_filter_on_port(port, endpoint) ==
    \/ IsAny(port)
    \/ /\ IsOnly(port)
       /\ \E e \in endpoint.ports :
              /\ e.protocol = Unwrap(port).protocol
              /\ \/ IsAny(Unwrap(port).port)
                 \/ Unwrap(port).port = Only(e.port)

are_distinct_relays(peer, relay) == peer.hostname # relay.hostname

----------------------------------------------------------------------------
(* Matchers *)

\* WireguardMatcher::new
WireguardMatcherNew(constraints, data) ==
    [peer |-> None,
     port |-> constraints.port,
     ip_version |-> constraints.ip_version,
     data |-> data]

\* OpenVpnMatcher::new: with the bridge state On an unconstrained port
\* becomes "TCP, any port".
OpenVpnMatcherNew(constraints, data, bridge_state) ==
    [constraints |->
        IF IsAny(constraints.port) /\ bridge_state = "On"
        THEN [constraints EXCEPT !.port = Only([protocol |-> "Tcp", port |-> Any])]
        ELSE constraints,
     data |-> data]

\* RelayMatcher::<AnyTunnelMatcher>::new
RelayMatcherNew(constraints, openvpn_data, bridge_state, wireguard_data, custom_lists) ==
    [locations |-> from_constraint(constraints.location, custom_lists),
     providers |-> constraints.providers,
     ownership |-> constraints.ownership,
     endpoint_matcher |->
        [kind |-> "AnyTunnel",
         wireguard |-> WireguardMatcherNew(constraints.wireguard_constraints,
                                           wireguard_data),
         openvpn |-> OpenVpnMatcherNew(constraints.openvpn_constraints,
                                       openvpn_data, bridge_state),
         tunnel_type |-> constraints.tunnel_protocol]]

\* WireguardMatcher::new_matcher
WireguardMatcherNewMatcher(constraints, data, custom_lists) ==
    [locations |-> from_constraint(constraints.location, custom_lists),
     providers |-> constraints.providers,
     ownership |-> constraints.ownership,
     endpoint_matcher |->
        [kind |-> "Wireguard",
         wireguard |-> WireguardMatcherNew(constraints.wireguard_constraints,
                                           data)]]

\* BridgeMatcher::new_matcher
BridgeMatcherNewMatcher(relay_constraints, custom_lists) ==
    [locations |-> from_constraint(relay_constraints.location, custom_lists),
     providers |-> relay_constraints.providers,
     ownership |-> relay_constraints.ownership,
     endpoint_matcher |-> [kind |-> "Bridge"]]

\* impl EndpointMatcher for WireguardMatcher
wireguard_is_matching_relay(m, relay) ==
    IF m.peer # None
    THEN filter_wireguard(relay) /\ are_distinct_relays(m.peer[1], relay)
    ELSE filter_wireguard(relay)

\* impl EndpointMatcher for OpenVpnMatcher
openvpn_is_matching_relay(m, relay) ==
    filter_openvpn(relay) /\ openvpn_filter_on_port(m.constraints.port, m.data)

\* impl EndpointMatcher for AnyTunnelMatcher / WireguardMatcher / BridgeMatcher
is_matching_relay(m, relay) ==
    CASE m.kind = "AnyTunnel" ->
            IF IsAny(m.tunnel_type)
            THEN \/ wireguard_is_matching_relay(m.wireguard, relay)
                 \/ openvpn_is_matching_relay(m.openvpn, relay)
            ELSE IF Unwrap(m.tunnel_type) = "OpenVpn"
            THEN openvpn_is_matching_relay(m.openvpn, relay)
            ELSE wireguard_is_matching_relay(m.wireguard, relay)
      [] m.kind = "Wireguard" -> wireguard_is_matching_relay(m.wireguard, relay)
      [] OTHER -> filter_bridge(relay)

\* The elements of a sequence
Range(seq) == {seq[i] : i \in DOMAIN seq}

\* The first pass of RelayMatcher::filter_matching_relay_list
shortlist(matcher, relays) ==
    SelectSeq(relays,
        LAMBDA relay :
            /\ filter_on_active(relay)
            /\ filter_on_location(matcher.locations, relay)
            /\ filter_on_ownership(matcher.ownership, relay)
            /\ filter_on_providers(matcher.providers, relay)
            /\ is_matching_relay(matcher.endpoint_matcher, relay))

\* A mutation of filter_matching_relay_list: include_in_country is required
\* also when no relay of the shortlist has it.
filter_matching_relay_list_never_waiving(matcher, relays) ==
    SelectSeq(shortlist(matcher, relays),
        LAMBDA relay : matches_with_opts(matcher.locations, relay, FALSE))

\* RelayMatcher::filter_matching_relay_list
filter_matching_relay_list(matcher, relays) ==
    LET ignore_include_in_country ==
            ~ \E relay \in Range(shortlist(matcher, relays)) :
                  relay.include_in_country
    IN  SelectSeq(shortlist(matcher, relays),
            LAMBDA relay :
                matches_with_opts(matcher.locations, relay,
                                  ignore_include_in_country))

----------------------------------------------------------------------------
(* Samplers (helpers.rs) *)

RECURSIVE SumWeights(_, _)
\* The sum of the first n weights
SumWeights(weights, n) ==
    IF n = 0 THEN 0 ELSE SumWeights(weights, n - 1) + weights[n]

RECURSIVE find_from_strict(_, _, _, _)
\* A mutation of the closure of `find`: it stops only at a relay whose weight
\* is more than what is left of i.
find_from_strict(relays, weights, i, k) ==
    IF k > Len(relays) THEN None
    ELSE IF weights[k] > i THEN Some(relays[k])
    ELSE find_from_strict(relays, weights, i - weights[k], k + 1)

\* A mutation of roulette_find that uses the closure above
roulette_find_strict(relays, weights, i) ==
    find_from_strict(relays, weights, i, 1)

RECURSIVE find_from(_, _, _, _)
\* relays.iter().find(|relay| { i = i.saturating_sub(weight_fn(relay)); i == 0 })
\* from position k on, with i what is left of the draw
find_from(relays, weights, i, k) ==
    IF k > Len(relays) THEN None
    ELSE LET left == IF weights[k] >= i THEN 0 ELSE i - weights[k]
         IN  IF left = 0 THEN Some(relays[k])
             ELSE find_from(relays, weights, left, k + 1)

\* The element at which `find` stops for the draw i, None when it stops
\* nowhere
roulette_find(relays, weights, i) == find_from(relays, weights, i, 1)

\* .expect("At least one relay must've had a weight above 0") on None
ExpectPanics == [panic |-> "At least one relay must've had a weight above 0"]

\* helpers::pick_random_relay_fn: the results the RNG can produce; weights[k]
\* is weight_fn(relays[k]).
pick_random_relay_fn(relays, weights) ==
    LET total_weight == SumWeights(weights, Len(relays))
    IN  IF total_weight = 0
        THEN IF relays = <<>> THEN {None}
             ELSE {Some(relays[k]) : k \in DOMAIN relays}
        ELSE {IF roulette_find(relays, weights, i) = None THEN ExpectPanics
              ELSE roulette_find(relays, weights, i)
                : i \in 1..total_weight}

\* helpers::pick_random_relay
pick_random_relay(relays) ==
    pick_random_relay_fn(relays, [k \in DOMAIN relays |-> relays[k].weight])

\* helpers::random: a uniform element of the slice other than `ignore`
random(elements, ignore) ==
    LET rest == {e \in Range(elements) : e # ignore}
    IN  IF rest = {} THEN {None} ELSE {Some(e) : e \in rest}

\* helpers::pick_random_bridge
pick_random_bridge(data, relay) ==
    IF relay.endpoint_data # "Bridge" \/ data.shadowsocks = {} THEN {None}
    ELSE {Some([ip |-> relay.ipv4_addr_in, port |-> e.port,
                protocol |-> e.protocol])
            : e \in data.shadowsocks}

\* helpers::get_udp2tcp_obfuscator
get_udp2tcp_obfuscator(udp2tcp_ports, obfuscation_settings, relay, endpoint) ==
    LET port == IF IsAny(obfuscation_settings) THEN Any
                ELSE Unwrap(obfuscation_settings).port
        udp2tcp_endpoint ==
            IF IsOnly(port)
            THEN IF Unwrap(port) \in udp2tcp_ports
                 THEN {Some(Unwrap(port))} ELSE {None}
            ELSE IF udp2tcp_ports = {} THEN {None}
                 ELSE {Some(candidate) : candidate \in udp2tcp_ports}
    IN  {IF e = None THEN None
         ELSE Some([endpoint |-> [ip |-> endpoint.ip, port |-> e[1]],
                    relay |-> relay.hostname]) : e \in udp2tcp_endpoint}

\* helpers::should_use_bridge (its parameter is the selector's configuration)
should_use_bridge(selector_config) ==
    CASE selector_config.bridge_state = "On" -> TRUE
      [] selector_config.bridge_state = "Off" -> FALSE
      [] OTHER -> FALSE

----------------------------------------------------------------------------
(* Detailers *)

\* The ports of the WireGuard port ranges
PortsOfRanges(port_ranges) ==
    UNION {range[1]..range[2] : range \in port_ranges}

\* WireguardDetailer::to_endpoint: the peer is the entry when one is set,
\* else the exit.
wireguard_to_endpoint(wireguard_constraints, exit, entry, data) ==
    LET peer == IF entry # None THEN entry[1] ELSE exit
        v6 == wireguard_constraints.ip_version = Only("V6")
        ports ==
            IF IsOnly(wireguard_constraints.port)
            THEN wireguard_constraints.port \cap PortsOfRanges(data.port_ranges)
            ELSE PortsOfRanges(data.port_ranges)
    IN  IF (v6 /\ peer.ipv6_addr_in = None) \/ ports = {} THEN {None}
        ELSE {Some([tunnel |-> "Wireguard",
                    peer |-> peer.hostname,
                    exit_peer |-> IF entry # None THEN Some(exit.hostname) ELSE None,
                    ip |-> IF v6 THEN peer.ipv6_addr_in[1] ELSE peer.ipv4_addr_in,
                    port |-> p,
                    protocol |-> "Udp"]) : p \in ports}

\* OpenVpnDetailer::to_endpoint
openvpn_to_endpoint(openvpn_constraints, exit, data) ==
    LET candidates ==
            IF IsAny(openvpn_constraints.port) THEN data.ports
            ELSE {e \in data.ports :
                    /\ e.protocol = Unwrap(openvpn_constraints.port).protocol
                    /\ \/ IsAny(Unwrap(openvpn_constraints.port).port)
                       \/ Unwrap(openvpn_constraints.port).port = Only(e.port)}
    IN  IF candidates = {} THEN {None}
        ELSE {Some([tunnel |-> "OpenVpn",
                    peer |-> exit.hostname,
                    exit_peer |-> None,
                    ip |-> exit.ipv4_addr_in,
                    port |-> e.port,
                    protocol |-> e.protocol]) : e \in candidates}

----------------------------------------------------------------------------
(* Bridge selection *)

\* Minimum number of bridges to keep for selection when filtering by distance.
MIN_BRIDGE_COUNT == 5

\* Max distance of bridges to consider for selection (km).
MAX_BRIDGE_DISTANCE == 1500

\* Location::distance_from; relays lie on a line, and positions and distances
\* are kept in metres (the f64 of the code counts kilometres, with a fraction).
distance_from(relay, location) ==
    IF relay.metres >= location THEN relay.metres - location
    ELSE location - relay.metres

\* `distance as usize`, `distance as u64`: the whole kilometres of a distance
as_usize(distance) == distance \div 1000

RECURSIVE SortByDistance(_)
\* A set of relays with distances as a sequence of ascending distance
SortByDistance(S) ==
    IF S = {} THEN <<>>
    ELSE LET first == CHOOSE x \in S : \A y \in S : x.distance <= y.distance
         IN  <<first>> \o SortByDistance(S \ {first})

\* The relays that .sorted_unstable_by_key(..).take(MIN_BRIDGE_COUNT) can
\* leave.  The sort is by the whole kilometres of the distance and unstable,
\* so which of several relays with the same key survive is open.
take_min_bridge_count(relays, location) ==
    LET with_distance ==
            {[relay |-> r, distance |-> distance_from(r, location)]
                : r \in Range(relays)}
        n == IF Cardinality(with_distance) < MIN_BRIDGE_COUNT
             THEN Cardinality(with_distance) ELSE MIN_BRIDGE_COUNT
    IN  {K \in SUBSET with_distance :
            /\ Cardinality(K) = n
            /\ \A a \in K : \A b \in with_distance \ K :
                  as_usize(a.distance) <= as_usize(b.distance)}

\* matching_relays: .filter(|relay| relay.distance <= MAX_BRIDGE_DISTANCE)
matching_relays_of(taken) ==
    SortByDistance({x \in taken : x.distance <= MAX_BRIDGE_DISTANCE * 1000})

\* weight_fn of each of matching_relays (which is not empty), with
\* greatest_distance the maximum distance among them
weight_fn(matching_relays) ==
    LET greatest_distance ==
            CHOOSE d \in {x.distance : x \in Range(matching_relays)} :
                \A x \in Range(matching_relays) : x.distance <= d
    IN  [k \in DOMAIN matching_relays |->
            1 + as_usize(greatest_distance - matching_relays[k].distance)]

\* What get_proximate_bridge returns when `taken` are the relays taken
proximate_bridge_of(taken) ==
    LET matching_relays == matching_relays_of(taken)
    IN  IF matching_relays = <<>> THEN {None}
        ELSE {Some(x[1].relay)
                : x \in pick_random_relay_fn(matching_relays,
                                             weight_fn(matching_relays))}

\* RelaySelector::get_proximate_bridge
get_proximate_bridge(relays, location) ==
    UNION {proximate_bridge_of(taken)
            : taken \in take_min_bridge_count(relays, location)}

\* RelaySelector::get_proxy_settings; location is an Option
get_proxy_settings(relays_data, constraints, location, custom_lists) ==
    LET matcher == BridgeMatcherNewMatcher(constraints, custom_lists)
        relays == filter_matching_relay_list(matcher, relays_data.relays)
        relay == IF location # None
                 THEN get_proximate_bridge(relays, location[1])
                 ELSE pick_random_relay(relays)
    IN  UNION {IF r = None THEN {None}
               ELSE {IF b = None THEN None
                     ELSE Some([settings |-> b[1], relay |-> r[1]])
                        : b \in pick_random_bridge(relays_data.bridge, r[1])}
                 : r \in relay}

\* SelectedBridge::Normal / Custom
SelectedBridgeNormal(settings, relay) ==
    [kind |-> "Normal", settings |-> Some(settings), relay |-> Some(relay.hostname)]

SelectedBridgeCustom(proxy) ==
    [kind |-> "Custom", settings |-> Some(proxy), relay |-> None]

\* RelaySelector::get_bridge_for: the Option<SelectedBridge> values possible
get_bridge_for(query, location, transport_protocol, relays_data, custom_lists) ==
    CASE query.kind = "Normal" ->
            LET bridge_constraints ==
                    [location |-> query.normal.location,
                     providers |-> query.normal.providers,
                     ownership |-> query.normal.ownership,
                     transport_protocol |-> Only(transport_protocol)]
            IN  {IF p = None THEN None
                 ELSE Some(SelectedBridgeNormal(p[1].settings, p[1].relay))
                    : p \in get_proxy_settings(relays_data, bridge_constraints,
                                               Some(location), custom_lists)}
      [] query.kind = "Custom" ->
            {IF query.custom = None THEN None
             ELSE Some(SelectedBridgeCustom(query.custom[1]))}
      [] OTHER -> {None}

\* RelaySelector::get_bridge: Result<Option<SelectedBridge>, Error>
get_bridge(query, relay, protocol, relays_data, custom_lists) ==
    IF protocol = "Udp"
    THEN {[error |-> "NoBridge", bridge |-> None]}
    ELSE {[error |-> "", bridge |-> b]
            : b \in get_bridge_for(query, relay.metres, "Tcp", relays_data,
                                   custom_lists)}

----------------------------------------------------------------------------
(* Relay selection *)

\* RelaySelector::get_tunnel_endpoints
get_tunnel_endpoints(relays_data, relay_constraints, bridge_state, custom_lists) ==
    filter_matching_relay_list(
        RelayMatcherNew(relay_constraints, relays_data.openvpn, bridge_state,
                        relays_data.wireguard, custom_lists),
        relays_data.relays)

\* RelaySelector::choose_relay
choose_relay(query, selector_config, relays_data) ==
    pick_random_relay(
        get_tunnel_endpoints(relays_data, query, selector_config.bridge_state,
                             selector_config.custom_lists))

\* The exit candidates of get_wireguard_multihop_config
exit_candidates(query, selector_config, relays_data) ==
    filter_matching_relay_list(
        WireguardMatcherNewMatcher(query, relays_data.wireguard,
                                   selector_config.custom_lists),
        relays_data.relays)

\* A mutation of the entry candidates: the entry query keeps the location of
\* the exit.
entry_candidates_at_exit_location(query, selector_config, relays_data) ==
    filter_matching_relay_list(
        WireguardMatcherNewMatcher(query, relays_data.wireguard,
                                   selector_config.custom_lists),
        relays_data.relays)

\* The entry candidates of get_wireguard_multihop_config: the same query with
\* the entry location as its location
entry_candidates(query, selector_config, relays_data) ==
    filter_matching_relay_list(
        WireguardMatcherNewMatcher(
            [query EXCEPT !.location = query.wireguard_constraints.entry_location],
            relays_data.wireguard, selector_config.custom_lists),
        relays_data.relays)

\* The pairs of one weighted exit draw and one entry draw that excludes it
weighted_exit_then_entry(exits, entrys) ==
    UNION {IF exit = None THEN {None}
           ELSE {IF entry = None THEN None
                 ELSE Some([exit |-> exit[1], entry |-> entry[1]])
                    : entry \in random(entrys, exit[1])}
             : exit \in pick_random_relay(exits)}

\* A mutation of get_wireguard_multihop_config: the last arm draws the entry
\* from all entry candidates, the exit included.
get_wireguard_multihop_config_no_exclude(query, selector_config, relays_data) ==
    LET exits == exit_candidates(query, selector_config, relays_data)
        entrys == entry_candidates(query, selector_config, relays_data)
    IN  UNION {IF exit = None THEN {None}
               ELSE {IF entry = None THEN None
                     ELSE Some([exit |-> exit[1], entry |-> entry[1]])
                        : entry \in pick_random_relay(entrys)}
                 : exit \in pick_random_relay(exits)}

\* A mutation of get_wireguard_multihop_config: only the last arm of the
\* match, a weighted exit and then an entry that is not the exit.
get_wireguard_multihop_config_last_arm_only(query, selector_config, relays_data) ==
    weighted_exit_then_entry(
        exit_candidates(query, selector_config, relays_data),
        entry_candidates(query, selector_config, relays_data))

\* RelaySelector::get_wireguard_multihop_config: None is Err(NoRelay)
get_wireguard_multihop_config(query, selector_config, relays_data) ==
    LET exits == exit_candidates(query, selector_config, relays_data)
        entrys == entry_candidates(query, selector_config, relays_data)
    IN  IF Len(exits) = 1 /\ Len(entrys) = 1 /\ exits[1] = entrys[1]
        THEN {None}
        ELSE IF Len(entrys) = 1 /\ entrys[1] \in Range(exits)
        THEN {IF exit = None THEN None
              ELSE Some([exit |-> exit[1], entry |-> entrys[1]])
                 : exit \in random(exits, entrys[1])}
        ELSE IF Len(exits) = 1 /\ exits[1] \in Range(entrys)
        THEN {IF entry = None THEN None
              ELSE Some([exit |-> exits[1], entry |-> entry[1]])
                 : entry \in random(entrys, exits[1])}
        ELSE weighted_exit_then_entry(exits, entrys)

\* RelaySelector::get_obfuscator
get_obfuscator(query, udp2tcp_ports, relay, endpoint) ==
    IF query.wireguard_constraints.obfuscation \in {"Off", "Auto"} THEN {None}
    ELSE get_udp2tcp_obfuscator(udp2tcp_ports,
                                query.wireguard_constraints.udp2tcp_port,
                                relay, endpoint)

\* What one call produces: a GetRelay value (kind Wireguard, OpenVpn or
\* Custom), an error (kind Err), or a panic.  An error keeps the relay and the
\* endpoint that had been selected before the failure; `tried` lists the
\* outcomes of the per-protocol selections of the Any arm.
Outcome(kind, error, exit, entry, endpoint, bridge, obfuscator) ==
    [kind |-> kind, error |-> error, exit |-> exit, entry |-> entry,
     endpoint |-> endpoint, bridge |-> bridge, obfuscator |-> obfuscator,
     custom |-> None, tried |-> <<>>]

Err(error) == Outcome("Err", error, None, None, None, None, None)

Panic == Outcome("Panic", "", None, None, None, None, None)

\* get_relay_inner, arm Constraint::Only(TunnelType::Wireguard)
get_relay_inner_wireguard(query, relays_data, selector_config) ==
    IF IsAny(query.wireguard_constraints.use_multihop)
    THEN {Panic}
    ELSE
    LET hops ==
            IF query.wireguard_constraints.use_multihop # Only(TRUE)
            THEN {IF exit = None THEN None
                  ELSE Some([exit |-> exit[1], entry |-> None])
                     : exit \in choose_relay(query, selector_config, relays_data)}
            ELSE {IF h = None THEN None
                  ELSE Some([exit |-> h[1].exit, entry |-> Some(h[1].entry)])
                     : h \in get_wireguard_multihop_config(query, selector_config,
                                                           relays_data)}
        detail(h) ==
            UNION {IF endpoint = None
                   THEN {Outcome("Err", "NoRelay", Some(h.exit), h.entry, None,
                                 None, None)}
                   ELSE {Outcome("Wireguard", "", Some(h.exit), h.entry, endpoint,
                                 None, obfuscator)
                           : obfuscator \in
                               get_obfuscator(query,
                                   relays_data.wireguard.udp2tcp_ports,
                                   IF h.entry # None THEN h.entry[1] ELSE h.exit,
                                   endpoint[1])}
                     : endpoint \in
                         wireguard_to_endpoint(query.wireguard_constraints, h.exit,
                                               h.entry, relays_data.wireguard)}
    IN  UNION {IF h = None THEN {Err("NoRelay")} ELSE detail(h[1]) : h \in hops}

\* get_relay_inner, arm Constraint::Only(TunnelType::OpenVpn)
get_relay_inner_openvpn(query, relays_data, selector_config) ==
    LET bridge(exit, endpoint) ==
            IF should_use_bridge(selector_config)
            THEN IF IsAny(query.openvpn_constraints.bridge_settings)
                 THEN {Panic}
                 ELSE {IF b.error # ""
                       THEN Outcome("Err", b.error, Some(exit), None,
                                    Some(endpoint), None, None)
                       ELSE Outcome("OpenVpn", "", Some(exit), None,
                                    Some(endpoint), b.bridge, None)
                          : b \in get_bridge(
                                Unwrap(query.openvpn_constraints.bridge_settings),
                                exit, endpoint.protocol, relays_data,
                                selector_config.custom_lists)}
            ELSE {Outcome("OpenVpn", "", Some(exit), None, Some(endpoint), None,
                          None)}
        detail(exit) ==
            UNION {IF endpoint = None
                   THEN {Outcome("Err", "NoRelay", Some(exit), None, None, None,
                                 None)}
                   ELSE bridge(exit, endpoint[1])
                     : endpoint \in
                         openvpn_to_endpoint(query.openvpn_constraints, exit,
                                             relays_data.openvpn)}
    IN  UNION {IF exit = None THEN {Err("NoRelay")} ELSE detail(exit[1])
                 : exit \in choose_relay(query, selector_config, relays_data)}

\* get_relay_inner on a query whose tunnel protocol is Only(tunnel_type)
get_relay_inner_only(query, relays_data, selector_config) ==
    IF query.tunnel_protocol = Only("Wireguard")
    THEN get_relay_inner_wireguard(query, relays_data, selector_config)
    ELSE get_relay_inner_openvpn(query, relays_data, selector_config)

\* A mutation of get_relay_inner: the Any arm tries OpenVPN before WireGuard.
get_relay_inner_openvpn_first(query, relays_data, selector_config) ==
    IF IsOnly(query.tunnel_protocol)
    THEN get_relay_inner_only(query, relays_data, selector_config)
    ELSE
    LET first == get_relay_inner_only(
                    [query EXCEPT !.tunnel_protocol = Only("OpenVpn")],
                    relays_data, selector_config)
        second == get_relay_inner_only(
                    [query EXCEPT !.tunnel_protocol = Only("Wireguard")],
                    relays_data, selector_config)
    IN  UNION {IF a.kind = "Panic" THEN {a}
               ELSE IF a.kind # "Err" THEN {[a EXCEPT !.tried = <<a>>]}
               ELSE {IF b.kind = "Panic" THEN b
                     ELSE IF b.kind # "Err" THEN [b EXCEPT !.tried = <<a, b>>]
                     ELSE [Err("NoRelay") EXCEPT !.tried = <<a, b>>]
                        : b \in second}
                 : a \in first}

\* RelaySelector::get_relay_inner.  In the Any arm an error of the WireGuard
\* selection is dropped and OpenVPN is tried; an error of the OpenVPN
\* selection is dropped too and the call fails with NoRelay.
get_relay_inner(query, relays_data, selector_config) ==
    IF IsOnly(query.tunnel_protocol)
    THEN get_relay_inner_only(query, relays_data, selector_config)
    ELSE
    LET first == get_relay_inner_only(
                    [query EXCEPT !.tunnel_protocol = Only("Wireguard")],
                    relays_data, selector_config)
        second == get_relay_inner_only(
                    [query EXCEPT !.tunnel_protocol = Only("OpenVpn")],
                    relays_data, selector_config)
    IN  UNION {IF a.kind = "Panic" THEN {a}
               ELSE IF a.kind # "Err" THEN {[a EXCEPT !.tried = <<a>>]}
               ELSE {IF b.kind = "Panic" THEN b
                     ELSE IF b.kind # "Err" THEN [b EXCEPT !.tried = <<a, b>>]
                     ELSE [Err("NoRelay") EXCEPT !.tried = <<a, b>>]
                        : b \in second}
                 : a \in first}

----------------------------------------------------------------------------
(* The selector's configuration and the retry ladder *)

\* RelaySettings::Normal / CustomTunnelEndpoint
Normal(relay_constraints) ==
    [kind |-> "Normal", constraints |-> Some(relay_constraints),
     endpoint |-> None]

CustomTunnelEndpoint(custom_relay) ==
    [kind |-> "CustomTunnelEndpoint", constraints |-> None,
     endpoint |-> Some(custom_relay)]

\* impl From<SelectorConfig> for RelayConstraintsFilter (relay settings Normal)
user_preferences_of(value) ==
    LET relay_constraints == value.relay_settings.constraints[1]
        wireguard_constraints ==
            [port |-> relay_constraints.wireguard_constraints.port,
             ip_version |-> relay_constraints.wireguard_constraints.ip_version,
             use_multihop |-> relay_constraints.wireguard_constraints.use_multihop,
             entry_location |->
                relay_constraints.wireguard_constraints.entry_location,
             obfuscation |-> value.obfuscation_settings.selected_obfuscation,
             udp2tcp_port |-> Only(value.obfuscation_settings.udp2tcp)]
        openvpn_constraints ==
            [port |-> relay_constraints.openvpn_constraints.port,
             bridge_settings |->
                CASE value.bridge_state = "On" ->
                        IF value.bridge_settings.bridge_type = "Normal"
                        THEN Only(BridgeSettingsFilterNormal(
                                    value.bridge_settings.normal))
                        ELSE Only(BridgeSettingsFilterCustom(
                                    value.bridge_settings.custom))
                  [] value.bridge_state = "Auto" -> Only(BridgeSettingsFilterAuto)
                  [] OTHER -> Only(BridgeSettingsFilterOff)]
    IN  [location |-> relay_constraints.location,
         providers |-> relay_constraints.providers,
         ownership |-> relay_constraints.ownership,
         tunnel_protocol |-> relay_constraints.tunnel_protocol,
         wireguard_constraints |-> wireguard_constraints,
         openvpn_constraints |-> openvpn_constraints]

RECURSIVE nth_compatible_counting_skipped(_, _, _, _)
\* A mutation of the search below: a row whose intersection is None is
\* skipped but uses up one attempt.
nth_compatible_counting_skipped(retry_order, user_preferences, pos, n) ==
    LET row == retry_order[(pos % Len(retry_order)) + 1]
        constraints == RelayConstraintsFilterIntersection(row, user_preferences)
    IN  IF constraints = None
        THEN nth_compatible_counting_skipped(retry_order, user_preferences,
                                             pos + 1, IF n = 0 THEN 0 ELSE n - 1)
        ELSE IF n = 0 THEN constraints[1]
        ELSE nth_compatible_counting_skipped(retry_order, user_preferences,
                                             pos + 1, n - 1)

RECURSIVE nth_compatible(_, _, _, _)
\* retry_order.iter().cycle().filter_map(|c| c.intersection(user)).nth(n),
\* from the position pos of the cycle on: rows whose intersection is None are
\* skipped without counting.
nth_compatible(retry_order, user_preferences, pos, n) ==
    LET row == retry_order[(pos % Len(retry_order)) + 1]
        constraints == RelayConstraintsFilterIntersection(row, user_preferences)
    IN  IF constraints = None
        THEN nth_compatible(retry_order, user_preferences, pos + 1, n)
        ELSE IF n = 0 THEN constraints[1]
        ELSE nth_compatible(retry_order, user_preferences, pos + 1, n - 1)

\* TRUE when the cycled ladder holds no row compatible with the preferences,
\* so that the search above would not end
no_compatible_row(retry_order, user_preferences) ==
    \A k \in DOMAIN retry_order :
        RelayConstraintsFilterIntersection(retry_order[k], user_preferences) = None

\* The record of one call: the operation and its arguments, the mutexes in
\* the order they were taken, what the preferences and the effective
\* constraints were, and the outcome.
Call(op, attempt, acquired, user_preferences, constraints, outcome) ==
    [op |-> op, attempt |-> attempt, acquired |-> acquired,
     user_preferences |-> user_preferences, constraints |-> constraints,
     outcome |-> outcome]

\* A mutation of get_relay_with_order: no short circuit for a custom tunnel
\* endpoint, so the catalog is locked and From<SelectorConfig> panics.
get_relay_with_order_no_short_circuit(selector_config, relays_data, retry_order, retry_attempt) ==
    IF selector_config.relay_settings.kind = "CustomTunnelEndpoint"
    THEN {Call("get_relay", retry_attempt, <<"config", "parsed_relays">>,
               None, None, Panic)}
    ELSE
    LET user_preferences == user_preferences_of(selector_config)
        constraints == nth_compatible(retry_order, user_preferences, 0,
                                      retry_attempt)
    IN  {Call("get_relay", retry_attempt, <<"config", "parsed_relays">>,
              Some(user_preferences), Some(constraints), outcome)
           : outcome \in get_relay_inner(constraints, relays_data,
                                         selector_config)}

\* A mutation of get_relay_with_order: when the selection fails under the
\* constraints of the attempt, the next compatible row is tried as well.
get_relay_with_order_falls_back(selector_config, relays_data, retry_order, retry_attempt) ==
    IF selector_config.relay_settings.kind = "CustomTunnelEndpoint"
    THEN {Call("get_relay", retry_attempt, <<"config">>, None, None,
               [Outcome("Custom", "", None, None, None, None, None)
                  EXCEPT !.custom = selector_config.relay_settings.endpoint])}
    ELSE
    LET user_preferences == user_preferences_of(selector_config)
        constraints == nth_compatible(retry_order, user_preferences, 0,
                                      retry_attempt)
        next == nth_compatible(retry_order, user_preferences, 0,
                               retry_attempt + 1)
    IN  UNION {IF outcome.kind # "Err"
               THEN {Call("get_relay", retry_attempt, <<"config", "parsed_relays">>,
                          Some(user_preferences), Some(constraints), outcome)}
               ELSE {Call("get_relay", retry_attempt, <<"config", "parsed_relays">>,
                          Some(user_preferences), Some(next), other)
                       : other \in get_relay_inner(next, relays_data,
                                                   selector_config)}
                 : outcome \in get_relay_inner(constraints, relays_data,
                                               selector_config)}

\* RelaySelector::get_relay_with_order: the calls it can make
get_relay_with_order(selector_config, relays_data, retry_order, retry_attempt) ==
    IF selector_config.relay_settings.kind = "CustomTunnelEndpoint"
    THEN {Call("get_relay", retry_attempt, <<"config">>, None, None,
               [Outcome("Custom", "", None, None, None, None, None)
                  EXCEPT !.custom = selector_config.relay_settings.endpoint])}
    ELSE
    LET user_preferences == user_preferences_of(selector_config)
    IN  IF no_compatible_row(retry_order, user_preferences)
        THEN {Call("get_relay", retry_attempt, <<"config", "parsed_relays">>,
                   Some(user_preferences), None,
                   Outcome("Hang", "", None, None, None, None, None))}
        ELSE
        LET constraints == nth_compatible(retry_order, user_preferences, 0,
                                          retry_attempt)
        IN  {Call("get_relay", retry_attempt, <<"config", "parsed_relays">>,
                  Some(user_preferences), Some(constraints), outcome)
               : outcome \in get_relay_inner(constraints, relays_data,
                                             selector_config)}

\* RelaySelector::get_relay_by_query: the calls it can make
get_relay_by_query(selector_config, relays_data, query) ==
    {Call("get_relay_by_query", 0, <<"parsed_relays", "config">>, None,
          Some(query), outcome)
       : outcome \in get_relay_inner(query, relays_data, selector_config)}

----------------------------------------------------------------------------
(* The catalog *)

\* RelayOverride::apply_to_relay
apply_to_relay(override, relay) ==
    [relay EXCEPT
        !.ipv4_addr_in = IF override.ipv4_addr_in # None
                         THEN override.ipv4_addr_in[1] ELSE @,
        !.ipv6_addr_in = IF override.ipv6_addr_in # None
                         THEN override.ipv6_addr_in ELSE @]

\* The relay list with the overrides applied to the relays they name
apply_overrides(relay_list, relay_overrides) ==
    [relay_list EXCEPT
        !.relays =
            [i \in DOMAIN relay_list.relays |->
                LET relay == relay_list.relays[i]
                    named == {o \in relay_overrides : o.hostname = relay.hostname}
                IN  IF named = {} THEN relay
                    ELSE apply_to_relay(CHOOSE o \in named : TRUE, relay)]]

\* ParsedRelays::from_relay_list: the list as fetched, the list with the
\* overrides applied, and the overrides
ParsedRelaysFromRelayList(relay_list, relay_overrides) ==
    [original_list |-> relay_list,
     parsed_list |-> apply_overrides(relay_list, relay_overrides),
     overrides |-> relay_overrides]

\* ParsedRelays::set_overrides
set_overrides(relays_state, relay_overrides) ==
    ParsedRelaysFromRelayList(relays_state.original_list, relay_overrides)

\* ParsedRelays::update
update(relays_state, new_relays) ==
    ParsedRelaysFromRelayList(new_relays, relays_state.overrides)

----------------------------------------------------------------------------
(* The relays, relay lists and configurations that are explored *)

\* The largest number of relays in a relay list
MaxRelays == 3

\* The largest retry attempt of get_relay, with its relay lists varied
MaxAttempt == 2

\* The largest retry attempt of get_relay, with the configuration varied
MaxLadderAttempt == 8

Relay(hostname, country, city, kind, provider, owned, active, weight, include_in_country, ipv4, ipv6, km) ==
    [hostname |-> hostname, country_code |-> country, city_code |-> city,
     endpoint_data |-> kind, provider |-> provider, owned |-> owned,
     active |-> active, weight |-> weight,
     include_in_country |-> include_in_country,
     ipv4_addr_in |-> ipv4, ipv6_addr_in |-> ipv6, metres |-> km * 1000]

AllRelays ==
    << Relay("se-got-wg-001", "se", "got", "Wireguard", "31173", TRUE, TRUE, 1,
             TRUE, "10.0.0.1", Some("fd00::1"), 0),
       Relay("se-got-wg-002", "se", "got", "Wireguard", "M247", FALSE, TRUE, 1,
             FALSE, "10.0.0.2", None, 0),
       Relay("no-osl-wg-001", "no", "osl", "Wireguard", "31173", TRUE, TRUE, 0,
             TRUE, "10.0.0.3", None, 400),
       Relay("se-sto-ovpn-001", "se", "sto", "Openvpn", "31173", TRUE, TRUE, 1,
             TRUE, "10.0.0.4", None, 1),
       Relay("se-sto-br-001", "se", "sto", "Bridge", "31173", TRUE, TRUE, 1,
             TRUE, "10.0.0.5", None, 2),
       Relay("se-got-wg-003", "se", "got", "Wireguard", "31173", TRUE, FALSE, 1,
             TRUE, "10.0.0.6", None, 0),
       Relay("us-nyc-br-001", "us", "nyc", "Bridge", "M247", FALSE, TRUE, 1,
             TRUE, "10.0.0.7", None, 6000) >>

RECURSIVE Pick(_, _)
\* The elements of seq at the positions I, in the order of seq
Pick(seq, I) ==
    IF I = {} THEN <<>>
    ELSE LET i == CHOOSE i \in I : \A j \in I : i <= j
         IN  <<seq[i]>> \o Pick(seq, I \ {i})

RelayListOf(relays) ==
    [relays |-> relays,
     wireguard |-> [port_ranges |-> {<<443, 443>>, <<51820, 51820>>},
                    udp2tcp_ports |-> {80, 443}],
     openvpn |-> [ports |-> {[port |-> 1194, protocol |-> "Udp"],
                             [port |-> 443, protocol |-> "Tcp"]}],
     bridge |-> [shadowsocks |-> {[port |-> 443, protocol |-> "Tcp"]}]]

RelayLists ==
    {RelayListOf(Pick(AllRelays, I)) :
        I \in {J \in SUBSET DOMAIN AllRelays : Cardinality(J) <= MaxRelays}}

EmptyRelayList == RelayListOf(<<>>)

CustomLists ==
    {[id |-> "nordic", locations |-> {Country("se"), Country("no")}],
     [id |-> "mixed", locations |-> {Country("no"), City("se", "got")}]}

\* RelayConstraints::default, WireguardConstraints::default
DefaultRelayConstraints ==
    [location |-> Any, providers |-> Any, ownership |-> Any,
     tunnel_protocol |-> Any,
     wireguard_constraints |->
        [port |-> Any, ip_version |-> Any, use_multihop |-> Only(FALSE),
         entry_location |-> Any],
     openvpn_constraints |-> [port |-> Any]]

\* SelectorConfig::default, with the custom lists of the exploration
DefaultConfig ==
    [relay_settings |-> Normal(DefaultRelayConstraints),
     custom_lists |-> CustomLists,
     relay_overrides |-> {},
     obfuscation_settings |->
        [selected_obfuscation |-> "Auto", udp2tcp |-> [port |-> Any]],
     bridge_state |-> "Auto",
     bridge_settings |->
        [bridge_type |-> "Normal", normal |-> BridgeConstraintsAny,
         custom |-> None]]

WithConstraints(c, relay_constraints) ==
    [c EXCEPT !.relay_settings = Normal(relay_constraints)]

Locations ==
    {Any,
     Only(Location(Country("se"))),
     Only(Location(City("se", "got"))),
     Only(Location(Hostname("se", "got", "se-got-wg-002"))),
     Only(CustomList("nordic")),
     Only(CustomList("mixed")),
     Only(CustomList("gone"))}

TunnelProtocols == {Any, Only("Wireguard"), Only("OpenVpn")}

\* Configurations that vary the location and the tunnel protocol
LocationConfigs ==
    {WithConstraints(DefaultConfig,
        [DefaultRelayConstraints EXCEPT !.location = l, !.tunnel_protocol = t])
        : l \in Locations, t \in TunnelProtocols}

\* Configurations with multihop on
MultihopConfigs ==
    {WithConstraints(DefaultConfig,
        [DefaultRelayConstraints EXCEPT
            !.location = l,
            !.tunnel_protocol = Only("Wireguard"),
            !.wireguard_constraints.use_multihop = Only(TRUE),
            !.wireguard_constraints.entry_location = e])
        : l \in {Any, Only(Location(City("se", "got"))),
                 Only(Location(Hostname("se", "got", "se-got-wg-001")))},
          e \in {Any, Only(Location(Country("no"))),
                 Only(Location(City("se", "got"))),
                 Only(Location(Hostname("se", "got", "se-got-wg-001")))}}

BridgeSetups ==
    {[bridge_state |-> "Auto", bridge_type |-> "Normal",
      normal |-> BridgeConstraintsAny, custom |-> None],
     [bridge_state |-> "Off", bridge_type |-> "Normal",
      normal |-> BridgeConstraintsAny, custom |-> None],
     [bridge_state |-> "On", bridge_type |-> "Normal",
      normal |-> BridgeConstraintsAny, custom |-> None],
     [bridge_state |-> "On", bridge_type |-> "Normal",
      normal |-> [BridgeConstraintsAny EXCEPT
                    !.location = Only(Location(Country("us")))],
      custom |-> None],
     [bridge_state |-> "On", bridge_type |-> "Custom",
      normal |-> BridgeConstraintsAny, custom |-> None],
     [bridge_state |-> "On", bridge_type |-> "Custom",
      normal |-> BridgeConstraintsAny, custom |-> Some("socks5-proxy")]}

WithBridge(c, b) ==
    [c EXCEPT !.bridge_state = b.bridge_state,
              !.bridge_settings = [bridge_type |-> b.bridge_type,
                                   normal |-> b.normal, custom |-> b.custom]]

\* Configurations that vary the bridge settings and the OpenVPN port
BridgeConfigs ==
    {WithBridge(
        WithConstraints(DefaultConfig,
            [DefaultRelayConstraints EXCEPT
                !.tunnel_protocol = t, !.openvpn_constraints.port = p]), b)
        : t \in {Any, Only("OpenVpn")},
          p \in {Any, Only([protocol |-> "Udp", port |-> Any]),
                 Only([protocol |-> "Tcp", port |-> Any])},
          b \in BridgeSetups}

\* Configurations that vary the remaining relay constraints
FilterConfigs ==
    {WithConstraints(DefaultConfig,
        [DefaultRelayConstraints EXCEPT
            !.ownership = o, !.providers = p,
            !.wireguard_constraints.ip_version = v])
        : o \in {Any, Only("MullvadOwned"), Only("Rented")},
          p \in {Any, Only({"M247"})},
          v \in {Any, Only("V6")}}
    \cup
    {[WithConstraints(DefaultConfig,
        [DefaultRelayConstraints EXCEPT
            !.tunnel_protocol = Only("Wireguard"),
            !.wireguard_constraints.port = p])
        EXCEPT !.obfuscation_settings =
                  [selected_obfuscation |-> o, udp2tcp |-> [port |-> u]]]
        : p \in {Any, Only(53)},
          o \in {"Off", "Udp2Tcp"},
          u \in {Any, Only(80), Only(5001)}}

\* A custom tunnel endpoint, and preferences that leave multihop open
OtherConfigs ==
    {[DefaultConfig EXCEPT !.relay_settings = CustomTunnelEndpoint("custom-ep")],
     [DefaultConfig EXCEPT !.relay_settings = CustomTunnelEndpoint("custom-ep-2"),
                           !.bridge_state = "On"],
     WithConstraints(DefaultConfig,
        [DefaultRelayConstraints EXCEPT
            !.wireguard_constraints.use_multihop = Any])}

Configs ==
    LocationConfigs \cup MultihopConfigs \cup BridgeConfigs \cup FilterConfigs
        \cup OtherConfigs

\* Queries handed to get_relay_by_query
Queries ==
    {RelayConstraintsFilterNew,
     [RelayConstraintsFilterNew EXCEPT
        !.wireguard_constraints.use_multihop = Only(FALSE)],
     [RelayConstraintsFilterNew EXCEPT
        !.tunnel_protocol = Only("OpenVpn"),
        !.openvpn_constraints.port = Only([protocol |-> "Udp", port |-> Any]),
        !.openvpn_constraints.bridge_settings =
            Only(BridgeSettingsFilterNormal(BridgeConstraintsAny))],
     [RelayConstraintsFilterNew EXCEPT
        !.tunnel_protocol = Only("Wireguard"),
        !.wireguard_constraints.use_multihop = Only(TRUE),
        !.wireguard_constraints.entry_location =
            Only(Location(City("se", "got")))]}

\* Configurations for the retry ladder: every field a ladder row sets is
\* varied, and the fields no row sets are varied together.
LadderConfigs ==
    {[WithBridge(
        WithConstraints(DefaultConfig,
            [location |-> g.location, providers |-> g.providers,
             ownership |-> g.ownership, tunnel_protocol |-> t,
             wireguard_constraints |->
                [port |-> wp, ip_version |-> v, use_multihop |-> m,
                 entry_location |-> g.entry_location],
             openvpn_constraints |-> [port |-> op]]), b)
        EXCEPT !.obfuscation_settings =
                  [selected_obfuscation |-> o, udp2tcp |-> [port |-> u]]]
        : g \in {[location |-> Any, providers |-> Any, ownership |-> Any,
                  entry_location |-> Any],
                 [location |-> Only(Location(Country("se"))),
                  providers |-> Only({"31173"}),
                  ownership |-> Only("MullvadOwned"),
                  entry_location |-> Only(Location(Country("no")))]},
          t \in TunnelProtocols,
          wp \in {Any, Only(443), Only(53)},
          v \in {Any, Only("V4"), Only("V6")},
          m \in {Only(FALSE), Only(TRUE)},
          o \in {"Auto", "Off", "Udp2Tcp"},
          u \in {Any, Only(80)},
          op \in {Any,
                  Only([protocol |-> "Tcp", port |-> Any]),
                  Only([protocol |-> "Tcp", port |-> Only(443)]),
                  Only([protocol |-> "Tcp", port |-> Only(80)]),
                  Only([protocol |-> "Udp", port |-> Any])},
          b \in {bs \in BridgeSetups : bs.custom = None}}

----------------------------------------------------------------------------
(* The state machine *)

\* No call is in progress and the last result has been taken.
Idle == Call("idle", 0, <<>>, None, None,
             Outcome("None", "", None, None, None, None, None))

\* RelaySelector::from_list
from_list(selector_config, relay_list) ==
    /\ config = selector_config
    /\ parsed_relays =
            ParsedRelaysFromRelayList(relay_list, selector_config.relay_overrides)

\* The selector is used by one caller at a time: no call is part-way through
\* and no mutex is poisoned.
OneCaller ==
    /\ callers = <<>>
    /\ poisoned = {}

Init ==
    /\ \E c \in Configs : \E l \in RelayLists : from_list(c, l)
    /\ result = Idle
    /\ OneCaller

\* RelaySelector::get_relay
GetRelay(retry_attempt) ==
    /\ result = Idle
    /\ result' \in get_relay_with_order(config, parsed_relays.parsed_list,
                                       RETRY_ORDER, retry_attempt)
    /\ UNCHANGED <<config, parsed_relays, callers, poisoned>>

\* RelaySelector::get_relay_by_query
GetRelayByQuery(query) ==
    /\ result = Idle
    /\ result' \in get_relay_by_query(config, parsed_relays.parsed_list, query)
    /\ UNCHANGED <<config, parsed_relays, callers, poisoned>>

\* The caller takes the result of the call.
Return ==
    /\ result # Idle
    /\ result' = Idle
    /\ UNCHANGED <<config, parsed_relays, callers, poisoned>>

\* RelaySelector::set_config
SetConfig(selector_config) ==
    /\ result = Idle
    /\ parsed_relays' = set_overrides(parsed_relays, selector_config.relay_overrides)
    /\ config' = selector_config
    /\ UNCHANGED <<result, callers, poisoned>>

\* RelaySelector::set_relays
SetRelays(relays) ==
    /\ result = Idle
    /\ parsed_relays' = update(parsed_relays, relays)
    /\ UNCHANGED <<config, result, callers, poisoned>>

Next ==
    \/ \E retry_attempt \in 0..MaxAttempt : GetRelay(retry_attempt)
    \/ \E query \in Queries : GetRelayByQuery(query)
    \/ Return
    \/ \E selector_config \in Configs : SetConfig(selector_config)
    \/ \E relays \in RelayLists : SetRelays(relays)

Spec == Init /\ [][Next]_vars

\* The retry ladder under many configurations, on an empty relay list
InitLadder ==
    /\ \E c \in LadderConfigs : from_list(c, EmptyRelayList)
    /\ result = Idle
    /\ OneCaller

NextLadder ==
    \/ \E retry_attempt \in 0..MaxLadderAttempt : GetRelay(retry_attempt)
    \/ Return

SpecLadder == InitLadder /\ [][NextLadder]_vars

----------------------------------------------------------------------------
(* The retry ladder never overrides the user *)

\* The constraint eff keeps what the constraint user asks for
Keeps(eff, user) == IsOnly(user) => eff = user

\* The same for a TransportPort: the protocol is kept, and the port when the
\* user constrained it
KeepsTransportPort(eff, user) ==
    IsOnly(user) =>
        /\ IsOnly(eff)
        /\ Unwrap(eff).protocol = Unwrap(user).protocol
        /\ Keeps(Unwrap(eff).port, Unwrap(user).port)

\* The effective constraints eff override nothing of the preferences user
NeverOverrides(eff, user) ==
    /\ Keeps(eff.location, user.location)
    /\ Keeps(eff.providers, user.providers)
    /\ Keeps(eff.ownership, user.ownership)
    /\ Keeps(eff.tunnel_protocol, user.tunnel_protocol)
    /\ Keeps(eff.wireguard_constraints.port, user.wireguard_constraints.port)
    /\ Keeps(eff.wireguard_constraints.ip_version,
             user.wireguard_constraints.ip_version)
    /\ Keeps(eff.wireguard_constraints.use_multihop,
             user.wireguard_constraints.use_multihop)
    /\ Keeps(eff.wireguard_constraints.entry_location,
             user.wireguard_constraints.entry_location)
    /\ KeepsTransportPort(eff.openvpn_constraints.port,
                          user.openvpn_constraints.port)
    /\ Keeps(eff.openvpn_constraints.bridge_settings,
             user.openvpn_constraints.bridge_settings)
    /\ user.wireguard_constraints.obfuscation \in {"Off", "Udp2Tcp"} =>
            eff.wireguard_constraints.obfuscation =
                user.wireguard_constraints.obfuscation

\* get_relay has run the ladder and selected effective constraints
LadderRan == result.op = "get_relay" /\ result.constraints # None

\* C1: for Normal relay settings and every retry attempt, the effective
\* constraints of get_relay (ladder row intersected with the preferences)
\* keep every field the user set to Only(v), and a user obfuscation of Off or
\* Udp2Tcp is unchanged.
C1_LadderNeverOverrides ==
    LadderRan =>
        NeverOverrides(result.constraints[1], result.user_preferences[1])

\* A later attempt under preferences that fix a WireGuard port other than the
\* ladder's, an OpenVPN transport and an obfuscation of Off
C1_Witness ==
    /\ LadderRan
    /\ result.attempt = 2
    /\ result.user_preferences[1].wireguard_constraints.port = Only(53)
    /\ result.user_preferences[1].wireguard_constraints.obfuscation = "Off"
    /\ result.user_preferences[1].openvpn_constraints.port =
            Only([protocol |-> "Tcp", port |-> Any])
    /\ result.constraints[1].wireguard_constraints.port = Only(53)

----------------------------------------------------------------------------
(* The ladder rows under preferences that restrict nothing *)

\* The user restricts nothing: default relay constraints, obfuscation Auto on
\* any port, bridge state Auto
Unrestricted ==
    /\ config.relay_settings = Normal(DefaultRelayConstraints)
    /\ config.obfuscation_settings =
            [selected_obfuscation |-> "Auto", udp2tcp |-> [port |-> Any]]
    /\ config.bridge_state = "Auto"

\* C2: with preferences that restrict nothing, the effective constraints at
\* attempt k are the documented ladder row k: attempt 2 is WireGuard on port
\* 443, attempt 4 is OpenVPN over TCP port 443, attempt 5 is WireGuard with
\* udp2tcp obfuscation selected.
C2_LadderRowsAsDocumented ==
    (LadderRan /\ Unrestricted) =>
        LET eff == result.constraints[1]
        IN  /\ result.attempt = 2 =>
                /\ eff.tunnel_protocol = Only("Wireguard")
                /\ eff.wireguard_constraints.port = Only(443)
            /\ result.attempt = 4 =>
                /\ eff.tunnel_protocol = Only("OpenVpn")
                /\ eff.openvpn_constraints.port =
                        Only([protocol |-> "Tcp", port |-> Only(443)])
            /\ result.attempt = 5 =>
                /\ eff.tunnel_protocol = Only("Wireguard")
                /\ eff.wireguard_constraints.obfuscation = "Udp2Tcp"

----------------------------------------------------------------------------
(* Custom tunnel endpoints *)

\* C3: with relay settings CustomTunnelEndpoint, get_relay returns
\* GetRelay::Custom with exactly the user's endpoint, for every attempt and
\* every relay list, having locked only the configuration: the catalog mutex is
\* not taken, no ladder row is intersected and no relay is matched.
C3_CustomEndpointShortCircuit ==
    (result.op = "get_relay"
        /\ config.relay_settings.kind = "CustomTunnelEndpoint") =>
        /\ result.outcome.kind = "Custom"
        /\ result.outcome.custom = config.relay_settings.endpoint
        /\ result.acquired = <<"config">>
        /\ result.user_preferences = None
        /\ result.constraints = None
        /\ result.outcome.exit = None
        /\ result.outcome.tried = <<>>

\* A later attempt on an empty relay list returns the custom endpoint
C3_Witness ==
    /\ result.op = "get_relay"
    /\ result.attempt = MaxAttempt
    /\ config.relay_settings.kind = "CustomTunnelEndpoint"
    /\ parsed_relays.parsed_list.relays = <<>>
    /\ result.outcome.custom = Some("custom-ep-2")

----------------------------------------------------------------------------
(* The dispatch on the tunnel protocol *)

\* The call ran get_relay_inner on a query whose tunnel protocol is Any, and
\* returned
AnyArmReturned ==
    /\ result.constraints # None
    /\ IsAny(result.constraints[1].tunnel_protocol)
    /\ result.outcome.kind # "Panic"

\* The outcomes the WireGuard selection can have for the query of the call
WireguardSelections ==
    get_relay_inner_only(
        [result.constraints[1] EXCEPT !.tunnel_protocol = Only("Wireguard")],
        parsed_relays.parsed_list, config)

\* The outcomes the OpenVPN selection can have for the query of the call
OpenVpnSelections ==
    get_relay_inner_only(
        [result.constraints[1] EXCEPT !.tunnel_protocol = Only("OpenVpn")],
        parsed_relays.parsed_list, config)

\* C4: with tunnel protocol Any, WireGuard is tried first and OpenVPN second
\* and the first success is returned: an OpenVPN result only after the
\* WireGuard selection failed, and a failure (NoRelay) only after both failed.
C4_WireguardThenOpenVpn ==
    AnyArmReturned =>
        LET tried == result.outcome.tried
        IN  /\ Len(tried) \in {1, 2}
            /\ tried[1] \in WireguardSelections
            /\ Len(tried) = 1 =>
                    /\ tried[1].kind = "Wireguard"
                    /\ result.outcome.kind = "Wireguard"
                    /\ result.outcome.exit = tried[1].exit
            /\ Len(tried) = 2 =>
                    /\ tried[1].kind = "Err"
                    /\ tried[2] \in OpenVpnSelections
            /\ result.outcome.kind = "OpenVpn" =>
                    /\ Len(tried) = 2
                    /\ tried[2].kind = "OpenVpn"
                    /\ result.outcome.exit = tried[2].exit
            /\ result.outcome.kind = "Err" =>
                    /\ result.outcome.error = "NoRelay"
                    /\ Len(tried) = 2
                    /\ tried[2].kind = "Err"
            /\ result.outcome.kind \in {"Wireguard", "OpenVpn", "Err"}

\* An OpenVPN relay is returned after the WireGuard selection failed although
\* the relay list holds a WireGuard relay
C4_Witness ==
    /\ AnyArmReturned
    /\ result.outcome.kind = "OpenVpn"
    /\ result.outcome.tried[1].kind = "Err"
    /\ \E i \in DOMAIN parsed_relays.parsed_list.relays :
            parsed_relays.parsed_list.relays[i].endpoint_data = "Wireguard"

----------------------------------------------------------------------------
(* Multihop *)

\* C5: get_wireguard_multihop_config never returns the same relay as exit and
\* as entry, whatever the relay list and the exit and entry locations: also
\* when the candidate sets overlap, are equal or are singletons.
C5_MultihopDistinct ==
    result.outcome.entry # None =>
        /\ result.outcome.exit # None
        /\ result.outcome.exit[1].hostname # result.outcome.entry[1].hostname

\* Exit and entry are drawn from the same two candidates
C5_Witness ==
    /\ result.op = "get_relay"
    /\ result.constraints # None
    /\ result.constraints[1].location = Only(Location(City("se", "got")))
    /\ result.constraints[1].wireguard_constraints.entry_location =
            Only(Location(City("se", "got")))
    /\ result.outcome.kind = "Wireguard"
    /\ result.outcome.exit[1].hostname = "se-got-wg-002"
    /\ result.outcome.entry = Some(AllRelays[1])

----------------------------------------------------------------------------
(* The relays a query admits *)

\* The call ran a query against the relay list
QueryRan == result.constraints # None

\* The relays of the relay list
Catalog == Range(parsed_relays.parsed_list.relays)

\* get_tunnel_endpoints for the query of the call
TunnelEndpoints ==
    Range(get_tunnel_endpoints(parsed_relays.parsed_list, result.constraints[1],
                               config.bridge_state, config.custom_lists))

\* The relay lies in the place geo
LiesIn(relay, geo) ==
    /\ relay.country_code = geo.country
    /\ geo.kind \in {"City", "Hostname"} => relay.city_code = geo.city
    /\ geo.kind = "Hostname" => relay.hostname = geo.hostname

\* The relay satisfies the location constraint, custom lists resolved
SatisfiesLocation(relay, location) ==
    \/ IsAny(location)
    \/ /\ IsOnly(location)
       /\ Unwrap(location).kind = "Location"
       /\ LiesIn(relay, Unwrap(location).location)
    \/ /\ IsOnly(location)
       /\ Unwrap(location).kind = "CustomList"
       /\ \E list \in config.custom_lists :
            /\ list.id = Unwrap(location).list_id
            /\ \E geo \in list.locations : LiesIn(relay, geo)

\* The OpenVPN ports of the relay list hold one that the constraint admits
HasOpenVpnPort(port) ==
    \E e \in parsed_relays.parsed_list.openvpn.ports :
        IsOnly(port) =>
            /\ e.protocol = Unwrap(port).protocol
            /\ IsOnly(Unwrap(port).port) => Unwrap(port).port = Only(e.port)

\* The relay is of an endpoint kind the query admits
KindAdmitted(relay, query) ==
    \/ /\ relay.endpoint_data = "Wireguard"
       /\ query.tunnel_protocol # Only("OpenVpn")
    \/ /\ relay.endpoint_data = "Openvpn"
       /\ query.tunnel_protocol # Only("Wireguard")
       /\ HasOpenVpnPort(query.openvpn_constraints.port)

\* The relay satisfies every predicate of the query, include_in_country aside
SatisfiesQuery(relay, query) ==
    /\ relay.active
    /\ query.ownership = Only("MullvadOwned") => relay.owned
    /\ query.ownership = Only("Rented") => ~relay.owned
    /\ IsOnly(query.providers) => relay.provider \in Unwrap(query.providers)
    /\ SatisfiesLocation(relay, query.location)
    /\ KindAdmitted(relay, query)

CountriesOnly(location) ==
    /\ IsOnly(location)
    /\ Unwrap(location).kind = "Location" =>
            Unwrap(location).location.kind = "Country"
    /\ Unwrap(location).kind = "CustomList" =>
            \A list \in config.custom_lists :
                list.id = Unwrap(location).list_id =>
                    \A geo \in list.locations : geo.kind = "Country"

C7_ReturnedRelaysSatisfyQuery ==
    QueryRan =>
        /\ \A relay \in TunnelEndpoints :
                SatisfiesQuery(relay, result.constraints[1])
        /\ result.outcome.exit # None =>
                /\ result.outcome.exit[1] \in Catalog
                /\ SatisfiesQuery(result.outcome.exit[1], result.constraints[1])
        /\ (result.outcome.bridge # None
                /\ result.outcome.bridge[1].kind = "Normal") =>
                \E relay \in Catalog :
                    /\ relay.hostname = result.outcome.bridge[1].relay[1]
                    /\ relay.active
                    /\ relay.endpoint_data = "Bridge"

\* A rented relay is returned from a relay list that also holds an owned and
\* an inactive relay
C7_Witness ==
    /\ QueryRan
    /\ result.constraints[1].ownership = Only("Rented")
    /\ result.outcome.kind = "Wireguard"
    /\ result.outcome.exit[1].hostname = "se-got-wg-002"
    /\ \E relay \in Catalog : relay.owned
    /\ \E relay \in Catalog : ~relay.active

----------------------------------------------------------------------------
(* Bridges *)

\* The outcome of the OpenVPN selection of the call: the outcome itself, or
\* the second selection of the Any arm
OpenVpnSelection ==
    IF result.outcome.tried = <<>> THEN result.outcome
    ELSE result.outcome.tried[Len(result.outcome.tried)]

\* An OpenVPN endpoint was selected, over the given protocol
SelectedOpenVpnOver(protocol) ==
    /\ OpenVpnSelection.endpoint # None
    /\ OpenVpnSelection.endpoint[1].tunnel = "OpenVpn"
    /\ OpenVpnSelection.endpoint[1].protocol = protocol

\* C8: when a bridge is requested and the selected OpenVPN endpoint uses UDP,
\* get_relay fails with NoBridge, with tunnel protocol Only(OpenVpn) and with
\* tunnel protocol Any alike.
C8_UdpBridgeFailsWithNoBridge ==
    (result.op = "get_relay" /\ QueryRan /\ should_use_bridge(config)
        /\ SelectedOpenVpnOver("Udp")) =>
        /\ result.outcome.kind = "Err"
        /\ result.outcome.error = "NoBridge"

\* C9: get_relay fails with NoBridge only when a bridge is requested and the
\* effective OpenVPN constraints ask for UDP; with bridge state On and an
\* OpenVPN port left open, no attempt fails with NoBridge.
C9_NoBridgeOnlyForRequestedUdp ==
    (result.op = "get_relay" /\ QueryRan /\ result.outcome.kind = "Err"
        /\ result.outcome.error = "NoBridge") =>
        /\ should_use_bridge(config)
        /\ IsOnly(result.constraints[1].openvpn_constraints.port)
        /\ Unwrap(result.constraints[1].openvpn_constraints.port).protocol = "Udp"

\* C10: when should_use_bridge holds, a successful OpenVPN result of get_relay
\* carries a bridge; there is no success without a bridge when no bridge relay
\* matches or lies within range.
C10_OpenVpnResultCarriesBridge ==
    (result.op = "get_relay" /\ QueryRan /\ should_use_bridge(config)
        /\ result.outcome.kind = "OpenVpn") =>
        result.outcome.bridge # None

----------------------------------------------------------------------------
(* Obfuscation *)

\* The query of the call selects udp2tcp obfuscation on a port the user pinned
PinnedUdp2TcpPort ==
    /\ QueryRan
    /\ result.constraints[1].wireguard_constraints.obfuscation = "Udp2Tcp"
    /\ IsOnly(result.constraints[1].wireguard_constraints.udp2tcp_port)
    /\ IsOnly(Unwrap(result.constraints[1].wireguard_constraints.udp2tcp_port).port)

\* The port the user pinned
PinnedPort ==
    Unwrap(Unwrap(result.constraints[1].wireguard_constraints.udp2tcp_port).port)

\* C11: with obfuscation Udp2Tcp and a pinned udp2tcp port p, a WireGuard
\* result carries an obfuscator on port p, which is one of the relay list's
\* udp2tcp ports; when p is not among them the selection fails and no
\* WireGuard result without an obfuscator is returned.
C11_PinnedUdp2TcpPortOrFailure ==
    (PinnedUdp2TcpPort /\ result.outcome.kind = "Wireguard") =>
        /\ PinnedPort \in parsed_relays.parsed_list.wireguard.udp2tcp_ports
        /\ result.outcome.obfuscator # None
        /\ result.outcome.obfuscator[1].endpoint.port = PinnedPort

----------------------------------------------------------------------------
(* Multihop left unconstrained *)

\* The query of the call reaches the WireGuard arm with use_multihop still Any
MultihopStillAny ==
    /\ QueryRan
    /\ result.constraints[1].tunnel_protocol # Only("OpenVpn")
    /\ IsAny(result.constraints[1].wireguard_constraints.use_multihop)

\* C12: when use_multihop is still Any in the query that is evaluated, the
\* call treats it as Only(false): it does not panic, and a WireGuard result is
\* single-hop, without an entry relay.
C12_AnyMultihopIsSingleHop ==
    MultihopStillAny =>
        /\ result.outcome.kind # "Panic"
        /\ result.outcome.kind = "Wireguard" => result.outcome.entry = None

----------------------------------------------------------------------------
(* get_bridge_forced *)

RECURSIVE SumKm(_)
\* The sum of a sequence of positions
SumKm(locations) ==
    IF locations = <<>> THEN 0
    ELSE Head(locations) + SumKm(Tail(locations))

\* Coordinates::midpoint, on a line
midpoint(locations) == SumKm(locations) \div Len(locations)

\* RelaySelector::get_relay_midpoint_inner
get_relay_midpoint_inner(relays_data, matcher) ==
    LET matching == filter_matching_relay_list(matcher, relays_data.relays)
        unique_by_city ==
            Pick(matching,
                 {i \in DOMAIN matching :
                    \A j \in 1..(i - 1) :
                        matching[j].city_code # matching[i].city_code})
        matching_locations ==
            [k \in DOMAIN unique_by_city |-> unique_by_city[k].metres]
    IN  IF matching_locations = <<>> THEN None
        ELSE Some(midpoint(matching_locations))

\* RelaySelector::get_relay_midpoint
get_relay_midpoint(relays_data, constraints, selector_config) ==
    IF IsAny(constraints.location) THEN None
    ELSE get_relay_midpoint_inner(relays_data,
            RelayMatcherNew(constraints, relays_data.openvpn,
                            selector_config.bridge_state, relays_data.wireguard,
                            selector_config.custom_lists))

\* RelaySelector::get_bridge_forced: the calls it can make
get_bridge_forced(selector_config, relays_data) ==
    LET near_location ==
            IF selector_config.relay_settings.kind = "Normal"
            THEN get_relay_midpoint(relays_data,
                                    user_preferences_of(selector_config),
                                    selector_config)
            ELSE None
        bridge_settings == selector_config.bridge_settings
        constraints ==
            IF bridge_settings.bridge_type = "Normal"
            THEN [location |-> bridge_settings.normal.location,
                  providers |-> bridge_settings.normal.providers,
                  ownership |-> bridge_settings.normal.ownership,
                  transport_protocol |-> Only("Tcp")]
            ELSE [location |-> Any, providers |-> Any, ownership |-> Any,
                  transport_protocol |-> Only("Tcp")]
    IN  {Call("get_bridge_forced", 0, <<"parsed_relays", "config">>, None, None,
              Outcome("Bridge", "", None, None, None,
                      IF p = None THEN None ELSE Some(p[1].settings), None))
           : p \in get_proxy_settings(relays_data, constraints, near_location,
                                      selector_config.custom_lists)}

----------------------------------------------------------------------------
(* Concurrent callers, each on a clone of one selector *)

\* The number of callers
MaxCallers == 2

Callers == 1..MaxCallers

\* An override of the address of one relay
RelayOverride(hostname, ipv4) ==
    [hostname |-> hostname, ipv4_addr_in |-> Some(ipv4), ipv6_addr_in |-> None]

\* The configurations the callers store: the default, one with an override
\* and a location, and a custom tunnel endpoint
ConcurrentConfigs ==
    {DefaultConfig,
     [WithConstraints(DefaultConfig,
        [DefaultRelayConstraints EXCEPT !.location = Only(Location(Country("se")))])
        EXCEPT !.relay_overrides = {RelayOverride("se-got-wg-001", "192.0.2.1")}],
     [DefaultConfig EXCEPT !.relay_settings = CustomTunnelEndpoint("custom-ep")]}

\* The relay lists the callers store
ConcurrentRelayLists ==
    {RelayListOf(Pick(AllRelays, {1})), RelayListOf(Pick(AllRelays, {1, 5}))}

\* The queries the callers hand to get_relay_by_query
ConcurrentQueries ==
    {RelayConstraintsFilterNew,
     [RelayConstraintsFilterNew EXCEPT
        !.wireguard_constraints.use_multihop = Only(FALSE)]}

\* The frame of a caller: the operation and its argument, where it stands,
\* the mutex guards it holds in the order they were taken, what it read from
\* behind each mutex, and the call it made.
Frame(op, pc, arg, held, seen_config, seen_relays, call) ==
    [op |-> op, pc |-> pc, arg |-> arg, held |-> held,
     seen_config |-> seen_config, seen_relays |-> seen_relays, call |-> call]

NoCall == Frame("idle", "idle", None, <<>>, None, None, None)

\* No caller holds a guard of the mutex.
Free(mutex) == \A c \in Callers : mutex \notin Range(callers[c].held)

\* The caller goes on to the frame; the guards it drops while unwinding from
\* a panic poison their mutexes.
Step(c, frame, unwound) ==
    /\ callers' = [callers EXCEPT ![c] = frame]
    /\ poisoned' = poisoned \cup unwound

\* lock().unwrap() panics on a poisoned mutex, or a panic under the guards.
Panics(c, op, unwound) ==
    Step(c, Frame(op, "panicked", None, <<>>, None, None, None), unwound)

\* The call returns and its guards are dropped.
Returns(c, op, seen_config, seen_relays, call) ==
    Step(c, Frame(op, "returned", None, <<>>, seen_config, seen_relays, call), {})

\* get_relay_with_order: self.config.lock().unwrap(), and the short circuit
GetRelayLockConfig(c, retry_attempt) ==
    /\ callers[c].pc = "idle"
    /\ Free("config")
    /\ IF "config" \in poisoned
       THEN Panics(c, "get_relay", {})
       ELSE IF config.relay_settings.kind = "CustomTunnelEndpoint"
            THEN \E call \in get_relay_with_order(config, parsed_relays.parsed_list,
                                                  RETRY_ORDER, retry_attempt) :
                    Returns(c, "get_relay", Some(config), None, Some(call))
            ELSE Step(c, Frame("get_relay", "holding", Some(retry_attempt),
                               <<"config">>, None, None, None), {})
    /\ UNCHANGED <<config, parsed_relays, result>>

\* get_relay_with_order: self.parsed_relays.lock().unwrap() to the return
GetRelayLockRelays(c) ==
    /\ callers[c].pc = "holding"
    /\ callers[c].op = "get_relay"
    /\ Free("parsed_relays")
    /\ IF "parsed_relays" \in poisoned
       THEN Panics(c, "get_relay", {"config"})
       ELSE \E call \in get_relay_with_order(config, parsed_relays.parsed_list,
                                             RETRY_ORDER, callers[c].arg[1]) :
                IF call.outcome.kind = "Panic"
                THEN Panics(c, "get_relay", {"config", "parsed_relays"})
                ELSE Returns(c, "get_relay", Some(config), Some(parsed_relays),
                             Some(call))
    /\ UNCHANGED <<config, parsed_relays, result>>

\* get_relay_by_query: self.parsed_relays.lock().unwrap()
GetRelayByQueryLockRelays(c, query) ==
    /\ callers[c].pc = "idle"
    /\ Free("parsed_relays")
    /\ IF "parsed_relays" \in poisoned
       THEN Panics(c, "get_relay_by_query", {})
       ELSE Step(c, Frame("get_relay_by_query", "holding", Some(query),
                          <<"parsed_relays">>, None, None, None), {})
    /\ UNCHANGED <<config, parsed_relays, result>>

\* get_relay_by_query: self.config.lock().unwrap() to the return
GetRelayByQueryLockConfig(c) ==
    /\ callers[c].pc = "holding"
    /\ callers[c].op = "get_relay_by_query"
    /\ Free("config")
    /\ IF "config" \in poisoned
       THEN Panics(c, "get_relay_by_query", {"parsed_relays"})
       ELSE \E call \in get_relay_by_query(config, parsed_relays.parsed_list,
                                           callers[c].arg[1]) :
                IF call.outcome.kind = "Panic"
                THEN Panics(c, "get_relay_by_query", {"config", "parsed_relays"})
                ELSE Returns(c, "get_relay_by_query", Some(config),
                             Some(parsed_relays), Some(call))
    /\ UNCHANGED <<config, parsed_relays, result>>

\* get_bridge_forced: self.parsed_relays.lock().unwrap()
GetBridgeForcedLockRelays(c) ==
    /\ callers[c].pc = "idle"
    /\ Free("parsed_relays")
    /\ IF "parsed_relays" \in poisoned
       THEN Panics(c, "get_bridge_forced", {})
       ELSE Step(c, Frame("get_bridge_forced", "holding", None,
                          <<"parsed_relays">>, None, None, None), {})
    /\ UNCHANGED <<config, parsed_relays, result>>

\* get_bridge_forced: self.config.lock().unwrap() to the return
GetBridgeForcedLockConfig(c) ==
    /\ callers[c].pc = "holding"
    /\ callers[c].op = "get_bridge_forced"
    /\ Free("config")
    /\ IF "config" \in poisoned
       THEN Panics(c, "get_bridge_forced", {"parsed_relays"})
       ELSE \E call \in get_bridge_forced(config, parsed_relays.parsed_list) :
                Returns(c, "get_bridge_forced", Some(config),
                        Some(parsed_relays), Some(call))
    /\ UNCHANGED <<config, parsed_relays, result>>

\* set_config: self.set_overrides(&config.relay_overrides), which locks the
\* relays, applies the overrides and drops the guard
SetConfigSetOverrides(c, selector_config) ==
    /\ callers[c].pc = "idle"
    /\ Free("parsed_relays")
    /\ IF "parsed_relays" \in poisoned
       THEN /\ Panics(c, "set_config", {})
            /\ UNCHANGED parsed_relays
       ELSE /\ parsed_relays' =
                    set_overrides(parsed_relays, selector_config.relay_overrides)
            /\ Step(c, Frame("set_config", "between", Some(selector_config),
                             <<>>, None, None, None), {})
    /\ UNCHANGED <<config, result>>

\* set_config: self.config.lock().unwrap() and the assignment
SetConfigLockConfig(c) ==
    /\ callers[c].pc = "between"
    /\ Free("config")
    /\ IF "config" \in poisoned
       THEN /\ Panics(c, "set_config", {})
            /\ UNCHANGED config
       ELSE /\ config' = callers[c].arg[1]
            /\ Returns(c, "set_config", None, None, None)
    /\ UNCHANGED <<parsed_relays, result>>

\* set_relays
SetRelaysLockRelays(c, relays) ==
    /\ callers[c].pc = "idle"
    /\ Free("parsed_relays")
    /\ IF "parsed_relays" \in poisoned
       THEN /\ Panics(c, "set_relays", {})
            /\ UNCHANGED parsed_relays
       ELSE /\ parsed_relays' = update(parsed_relays, relays)
            /\ Returns(c, "set_relays", None, None, None)
    /\ UNCHANGED <<config, result>>

\* The caller takes the result, or its thread has ended with the panic; the
\* clone is used for another call.
CallerDone(c) ==
    /\ callers[c].pc \in {"returned", "panicked"}
    /\ Step(c, NoCall, {})
    /\ UNCHANGED <<config, parsed_relays, result>>

InitConcurrent ==
    /\ \E c \in ConcurrentConfigs : \E l \in ConcurrentRelayLists : from_list(c, l)
    /\ result = Idle
    /\ callers = [c \in Callers |-> NoCall]
    /\ poisoned = {}

NextConcurrent ==
    \E c \in Callers :
        \/ GetRelayLockConfig(c, 0)
        \/ GetRelayLockRelays(c)
        \/ \E query \in ConcurrentQueries : GetRelayByQueryLockRelays(c, query)
        \/ GetRelayByQueryLockConfig(c)
        \/ GetBridgeForcedLockRelays(c)
        \/ GetBridgeForcedLockConfig(c)
        \/ \E selector_config \in ConcurrentConfigs :
                SetConfigSetOverrides(c, selector_config)
        \/ SetConfigLockConfig(c)
        \/ \E relays \in ConcurrentRelayLists : SetRelaysLockRelays(c, relays)
        \/ CallerDone(c)

SpecConcurrent == InitConcurrent /\ [][NextConcurrent]_vars

----------------------------------------------------------------------------
(* Concurrent calls complete *)

\* The caller holds a guard of one mutex and is blocked in lock() on the other.
WaitsFor(c, held, wanted) ==
    /\ callers[c].pc = "holding"
    /\ callers[c].held = <<held>>
    /\ ~Free(wanted)

\* C13: concurrent calls of get_relay, get_relay_by_query, get_bridge_forced,
\* set_config and set_relays on clones of one selector always complete: no
\* two callers each hold one of the two mutexes while waiting for the other,
\* and both mutexes are free once every call has returned.
C13_NoCircularWait ==
    /\ ~ \E a, b \in Callers :
            /\ WaitsFor(a, "config", "parsed_relays")
            /\ WaitsFor(b, "parsed_relays", "config")
    /\ (\A c \in Callers : callers[c].pc \in {"idle", "returned", "panicked"})
            => (Free("config") /\ Free("parsed_relays"))

----------------------------------------------------------------------------
(* What a reader sees during set_config *)

\* C14: a reader that returns has computed its result from settings and a
\* catalog that belong together: the overrides applied to the catalog it read
\* are the relay_overrides of the settings it read.
C14_ReaderSeesSettingsWithTheirOverrides ==
    \A c \in Callers :
        (callers[c].pc = "returned" /\ callers[c].seen_relays # None) =>
            callers[c].seen_relays[1].overrides =
                callers[c].seen_config[1].relay_overrides

----------------------------------------------------------------------------
(* The algebra of RelayConstraintsFilter intersection *)

\* Filters that constrain one field of RelayConstraintsFilter::new()
OneFieldFilters ==
    {[RelayConstraintsFilterNew EXCEPT !.location = v]
        : v \in {Only(Location(Country("se"))), Only(CustomList("nordic"))}}
    \cup {[RelayConstraintsFilterNew EXCEPT !.providers = v]
            : v \in {Only({"M247"}), Only({"31173"})}}
    \cup {[RelayConstraintsFilterNew EXCEPT !.ownership = v]
            : v \in {Only("MullvadOwned"), Only("Rented")}}
    \cup {[RelayConstraintsFilterNew EXCEPT !.tunnel_protocol = v]
            : v \in {Only("Wireguard"), Only("OpenVpn")}}
    \cup {[RelayConstraintsFilterNew EXCEPT !.wireguard_constraints.port = v]
            : v \in {Only(53), Only(443)}}
    \cup {[RelayConstraintsFilterNew EXCEPT !.wireguard_constraints.ip_version = v]
            : v \in {Only("V4"), Only("V6")}}
    \cup {[RelayConstraintsFilterNew EXCEPT !.wireguard_constraints.use_multihop = v]
            : v \in {Only(FALSE), Only(TRUE)}}
    \cup {[RelayConstraintsFilterNew EXCEPT
              !.wireguard_constraints.entry_location = v]
            : v \in {Only(Location(City("se", "got")))}}
    \cup {[RelayConstraintsFilterNew EXCEPT !.wireguard_constraints.obfuscation = v]
            : v \in {"Off", "Udp2Tcp"}}
    \cup {[RelayConstraintsFilterNew EXCEPT !.wireguard_constraints.udp2tcp_port = v]
            : v \in {Only([port |-> Any]), Only([port |-> Only(80)]),
                     Only([port |-> Only(443)])}}
    \cup {[RelayConstraintsFilterNew EXCEPT !.openvpn_constraints.port = v]
            : v \in {Only([protocol |-> "Tcp", port |-> Any]),
                     Only([protocol |-> "Tcp", port |-> Only(443)]),
                     Only([protocol |-> "Tcp", port |-> Only(80)]),
                     Only([protocol |-> "Udp", port |-> Any])}}
    \cup {[RelayConstraintsFilterNew EXCEPT !.openvpn_constraints.bridge_settings = v]
            : v \in {Only(BridgeSettingsFilterOff), Only(BridgeSettingsFilterAuto),
                     Only(BridgeSettingsFilterNormal(BridgeConstraintsAny))}}

\* The filters that are intersected: the one-field filters, the rows of the
\* retry ladder, and the preferences of some user configurations
AlgebraFilters ==
    OneFieldFilters
        \cup Range(RETRY_ORDER)
        \cup {user_preferences_of(c)
                : c \in {DefaultConfig,
                         [WithConstraints(DefaultConfig,
                            [DefaultRelayConstraints EXCEPT
                                !.tunnel_protocol = Only("Wireguard"),
                                !.wireguard_constraints.port = Only(53)])
                            EXCEPT !.obfuscation_settings =
                                [selected_obfuscation |-> "Udp2Tcp",
                                 udp2tcp |-> [port |-> Only(80)]]],
                         [WithConstraints(DefaultConfig,
                            [DefaultRelayConstraints EXCEPT
                                !.tunnel_protocol = Only("OpenVpn"),
                                !.openvpn_constraints.port =
                                    Only([protocol |-> "Tcp", port |-> Any])])
                            EXCEPT !.bridge_state = "On"]}}

\* Option::and_then(|f| f.intersection(other))
and_then_intersection(option, other) ==
    IF option = None THEN None
    ELSE RelayConstraintsFilterIntersection(option[1], other)

\* Three filters are drawn.
InitAlgebra ==
    /\ from_list(DefaultConfig, EmptyRelayList)
    /\ \E x \in AlgebraFilters : \E y \in AlgebraFilters : \E z \in AlgebraFilters :
          result = [op |-> "filters", x |-> x, y |-> y, z |-> z]
    /\ OneCaller

\* The intersections of test_identity, commutativity and associativity
Intersect ==
    /\ result.op = "filters"
    /\ result' =
         [op |-> "intersection", x |-> result.x, y |-> result.y, z |-> result.z,
          any_x |-> RelayConstraintsFilterIntersection(builder_any, result.x),
          x_any |-> RelayConstraintsFilterIntersection(result.x, builder_any),
          x_y |-> RelayConstraintsFilterIntersection(result.x, result.y),
          y_x |-> RelayConstraintsFilterIntersection(result.y, result.x),
          xy_z |-> and_then_intersection(
                      RelayConstraintsFilterIntersection(result.x, result.y),
                      result.z),
          x_yz |-> IF RelayConstraintsFilterIntersection(result.y, result.z) = None
                   THEN None
                   ELSE RelayConstraintsFilterIntersection(
                            result.x,
                            RelayConstraintsFilterIntersection(result.y,
                                                               result.z)[1])]
    /\ UNCHANGED <<config, parsed_relays, callers, poisoned>>

NextAlgebra == Intersect

SpecAlgebra == InitAlgebra /\ [][NextAlgebra]_vars

Intersected == result.op = "intersection"

\* C15: builder::any().build() is the identity of the intersection: for every
\* filter x, any() /\ x and x /\ any() both succeed and equal x.
C15_AnyIsIdentity ==
    Intersected =>
        /\ result.any_x = Some(result.x)
        /\ result.x_any = Some(result.x)

\* any() met a filter that turns obfuscation off and constrains fields.
C15_Witness ==
    /\ Intersected
    /\ result.x.wireguard_constraints.obfuscation = "Udp2Tcp"
    /\ IsOnly(result.x.wireguard_constraints.port)
    /\ result.any_x = Some(result.x)

\* C16: the intersection is commutative: x /\ y and y /\ x are both None or
\* both the same filter.
C16_IntersectionCommutes ==
    Intersected => result.x_y = result.y_x

\* Two different filters, neither the identity, met in a filter.
C16_Witness ==
    /\ Intersected
    /\ result.x # result.y
    /\ result.x # builder_any
    /\ result.y # builder_any
    /\ result.x.wireguard_constraints.obfuscation = "Off"
    /\ result.y = RETRY_ORDER[3]
    /\ result.x_y # None
    /\ result.x_y = result.y_x

\* C17: the intersection is associative, None propagating: (x /\ y) /\ z and
\* x /\ (y /\ z) are both None or both the same filter.
C17_IntersectionAssociates ==
    Intersected => result.xy_z = result.x_yz

\* Three different filters met in a filter that is none of them.
C17_Witness ==
    /\ Intersected
    /\ result.xy_z # None
    /\ result.xy_z = result.x_yz
    /\ result.xy_z[1] \notin {result.x, result.y, result.z}
    /\ result.x_y # None
    /\ result.x_y[1] \notin {result.x, result.y}
    /\ IsOnly(result.z.openvpn_constraints.bridge_settings)
    /\ IsOnly(result.x.openvpn_constraints.port)

----------------------------------------------------------------------------
(* A custom list that does not exist *)

\* The location of the query names a custom list the user does not have
MissingCustomList ==
    /\ QueryRan
    /\ IsOnly(result.constraints[1].location)
    /\ Unwrap(result.constraints[1].location).kind = "CustomList"
    /\ \A list \in config.custom_lists :
          list.id # Unwrap(result.constraints[1].location).list_id

\* C18: a location naming a custom list that is not among the user's custom
\* lists matches no relay: the filter returns no candidate and the selection
\* fails with NoRelay; it does not panic, fail otherwise or succeed.
C18_MissingCustomListMatchesNoRelay ==
    MissingCustomList =>
        /\ TunnelEndpoints = {}
        /\ result.outcome.kind = "Err"
        /\ result.outcome.error = "NoRelay"

\* The list was missing while the relay list held a usable WireGuard relay
\* and the tunnel protocol was open.
C18_Witness ==
    /\ MissingCustomList
    /\ IsAny(result.constraints[1].tunnel_protocol)
    /\ \E relay \in Catalog :
          /\ relay.endpoint_data = "Wireguard"
          /\ relay.active
          /\ relay.include_in_country
    /\ result.outcome.error = "NoRelay"

----------------------------------------------------------------------------
(* One call, one set of constraints *)

\* The user pins OpenVPN and the relay list has no OpenVPN relay.
OpenVpnPinnedWithoutOpenVpnRelays ==
    /\ config.relay_settings.kind = "Normal"
    /\ config.relay_settings.constraints[1].tunnel_protocol = Only("OpenVpn")
    /\ \A relay \in Catalog : relay.endpoint_data # "Openvpn"

\* C19: one call get_relay(attempt) evaluates exactly the constraints
\* selected for that attempt, and what it returns, an error included, is what
\* the selection under these constraints gives; there is no fall back to
\* another row.  A user who pins OpenVPN on a relay list without OpenVPN
\* relays gets NoRelay.
C19_OneConstraintSetPerCall ==
    (QueryRan /\ result.op = "get_relay") =>
        /\ result.constraints =
              Some(nth_compatible(RETRY_ORDER, result.user_preferences[1], 0,
                                  result.attempt))
        /\ result.outcome \in get_relay_inner(result.constraints[1],
                                              parsed_relays.parsed_list, config)
        /\ OpenVpnPinnedWithoutOpenVpnRelays =>
              (result.outcome.kind = "Err" /\ result.outcome.error = "NoRelay")

\* OpenVPN was pinned, the relay list had a usable WireGuard relay only, and
\* the call at attempt 1 failed with NoRelay although the next row differs.
C19_Witness ==
    /\ QueryRan
    /\ result.op = "get_relay"
    /\ result.attempt = 1
    /\ OpenVpnPinnedWithoutOpenVpnRelays
    /\ \E relay \in Catalog : relay.endpoint_data = "Wireguard" /\ relay.active
    /\ result.outcome.error = "NoRelay"
    /\ nth_compatible(RETRY_ORDER, result.user_preferences[1], 0, 2)
          # result.constraints[1]

----------------------------------------------------------------------------
(* The relay_list program (mullvad-api/src/bin/relay_list.rs) *)

\* What the request for the relay list can resolve to: a relay list, or an
\* error of rest::Error
RelayListResponses ==
    {[kind |-> "Ok", relay_list |-> Some(l), error |-> ""] : l \in RelayLists}
    \cup {[kind |-> "Err", relay_list |-> None, error |-> e]
            : e \in {"TimeoutError", "DeserializeError", "HyperError",
                     "ApiError", "Aborted", "InvalidHeaderError"}}

\* serde_json::to_string_pretty: the JSON text of the relay list
to_string_pretty(relay_list) ==
    [json |-> "object",
     relays |-> [i \in DOMAIN relay_list.relays |-> relay_list.relays[i].hostname],
     wireguard |-> relay_list.wireguard,
     openvpn |-> relay_list.openvpn,
     bridge |-> relay_list.bridge]

\* The process: where main stands, what the request resolved to, what was
\* written to stdout and stderr, and the exit code once it has exited
Process(pc, relay_list_request, stdout, stderr, exit_code) ==
    [op |-> "relay_list", pc |-> pc, relay_list_request |-> relay_list_request,
     stdout |-> stdout, stderr |-> stderr, exit_code |-> exit_code]

InitMain ==
    /\ from_list(DefaultConfig, EmptyRelayList)
    /\ result = Process("main", None, <<>>, <<>>, None)
    /\ OneCaller

\* mullvad_api::Runtime::new(..).expect("Failed to load runtime")
RuntimeNew ==
    /\ result.pc = "main"
    /\ \/ result' = Process("runtime", None, <<>>, <<>>, None)
       \/ result' = Process("exited", None, <<>>, <<"Failed to load runtime">>,
                            Some(101))
    /\ UNCHANGED <<config, parsed_relays, callers, poisoned>>

\* RelayListProxy::new(..).relay_list(None).await
RelayListRequest ==
    /\ result.pc = "runtime"
    /\ \E response \in RelayListResponses :
          result' = Process("requested", Some(response), <<>>, <<>>, None)
    /\ UNCHANGED <<config, parsed_relays, callers, poisoned>>

\* A mutation of the match in main: a timeout is handled by the last arm.
MatchRelayListRequestWithoutTimeoutArm ==
    /\ result.pc = "requested"
    /\ LET relay_list_request == result.relay_list_request[1]
       IN  result' =
             CASE relay_list_request.kind = "Ok" ->
                    Process("exited", result.relay_list_request,
                            <<to_string_pretty(relay_list_request.relay_list[1])>>,
                            <<>>, Some(0))
               [] relay_list_request.error = "DeserializeError" ->
                    Process("exited", result.relay_list_request, <<>>,
                            <<"Failed to deserialize relay list">>, Some(3))
               [] OTHER ->
                    Process("exited", result.relay_list_request, <<>>,
                            <<"Failed to fetch relay list">>, Some(1))
    /\ UNCHANGED <<config, parsed_relays, callers, poisoned>>

\* main: the match on relay_list_request, the println! and the exit
MatchRelayListRequest ==
    /\ result.pc = "requested"
    /\ LET relay_list_request == result.relay_list_request[1]
       IN  result' =
             CASE relay_list_request.kind = "Ok" ->
                    Process("exited", result.relay_list_request,
                            <<to_string_pretty(relay_list_request.relay_list[1])>>,
                            <<>>, Some(0))
               [] relay_list_request.error = "TimeoutError" ->
                    Process("exited", result.relay_list_request, <<>>,
                            <<"Request timed out">>, Some(2))
               [] relay_list_request.error = "DeserializeError" ->
                    Process("exited", result.relay_list_request, <<>>,
                            <<"Failed to deserialize relay list">>, Some(3))
               [] OTHER ->
                    Process("exited", result.relay_list_request, <<>>,
                            <<"Failed to fetch relay list">>, Some(1))
    /\ UNCHANGED <<config, parsed_relays, callers, poisoned>>

NextMain ==
    \/ RuntimeNew
    \/ RelayListRequest
    \/ MatchRelayListRequest

SpecMain == InitMain /\ [][NextMain]_vars

\* The process has exited after the request for the relay list resolved.
ExitedAfterRequest ==
    /\ result.pc = "exited"
    /\ result.relay_list_request # None

\* C20: relay_list exits with 0 after printing the relay list on success,
\* with 2 when the request timed out, with 3 when the response could not be
\* deserialized and with 1 on every other fetch error, and prints nothing to
\* stdout on a failure.
C20_ExitCodes ==
    ExitedAfterRequest =>
        LET relay_list_request == result.relay_list_request[1]
        IN  /\ relay_list_request.kind = "Ok" =>
                  /\ result.exit_code = Some(0)
                  /\ result.stdout =
                        <<to_string_pretty(relay_list_request.relay_list[1])>>
            /\ relay_list_request.kind = "Err" =>
                  /\ result.stdout = <<>>
                  /\ result.exit_code =
                        Some(CASE relay_list_request.error = "TimeoutError" -> 2
                               [] relay_list_request.error = "DeserializeError" -> 3
                               [] OTHER -> 1)

\* The request timed out and the process exited with 2.
C20_Witness ==
    /\ ExitedAfterRequest
    /\ result.relay_list_request[1].error = "TimeoutError"
    /\ result.exit_code = Some(2)
    /\ result.stderr # <<>>

----------------------------------------------------------------------------
(* The cycled ladder *)

\* The rows of the ladder merged with the preferences, in ladder order, without
\* the rows whose intersection is None
CompatibleRows(user_preferences) ==
    SelectSeq([k \in DOMAIN RETRY_ORDER |->
                  RelayConstraintsFilterIntersection(RETRY_ORDER[k],
                                                     user_preferences)],
              LAMBDA constraints : constraints # None)

\* C21: get_relay(attempt) uses the element at position attempt of the ladder
\* repeated cyclically, each row intersected with the preferences and rows of
\* intersection None dropped: with k compatible rows, attempt n uses the
\* (n mod k)-th compatible row.
C21_AttemptSelectsCompatibleRow ==
    LadderRan =>
        LET rows == CompatibleRows(result.user_preferences[1])
        IN  /\ Len(rows) > 0
            /\ result.constraints = rows[(result.attempt % Len(rows)) + 1]

\* Some row was incompatible, and the attempt went round the ladder to a row
\* that comes after an incompatible one.
C21_Witness ==
    /\ LadderRan
    /\ Len(CompatibleRows(result.user_preferences[1])) < Len(RETRY_ORDER)
    /\ result.attempt >= Len(CompatibleRows(result.user_preferences[1]))
    /\ result.attempt % Len(CompatibleRows(result.user_preferences[1])) >= 3
    /\ RelayConstraintsFilterIntersection(RETRY_ORDER[3],
                                          result.user_preferences[1]) = None

----------------------------------------------------------------------------
(* The search in the ladder ends *)

\* C29: with Normal relay settings, for every attempt, the search of get_relay
\* for the attempt-th compatible row ends with a row: it neither runs forever
\* over the cycled ladder nor panics on the unwrap, since row 0 of the ladder
\* has an intersection with every set of user preferences.
C29_LadderSearchTerminates ==
    (result.op = "get_relay" /\ config.relay_settings.kind = "Normal") =>
        /\ result.outcome.kind # "Hang"
        /\ result.constraints # None
        /\ RelayConstraintsFilterIntersection(RETRY_ORDER[1],
                                              result.user_preferences[1])
              = Some(result.user_preferences[1])

\* The preferences were incompatible with three rows of the ladder and the
\* attempt was the largest one.
C29_Witness ==
    /\ LadderRan
    /\ result.attempt = MaxLadderAttempt
    /\ \A k \in {3, 4, 5} :
          RelayConstraintsFilterIntersection(RETRY_ORDER[k],
                                             result.user_preferences[1]) = None

----------------------------------------------------------------------------
(* The order of the two mutexes *)

\* C22: every operation that holds both mutexes takes config (the settings)
\* before parsed_relays (the catalog): no caller waits for config while it
\* holds parsed_relays, and a call that took both took config first.
C22_SettingsBeforeCatalog ==
    \A c \in Callers :
        /\ callers[c].pc = "holding" => callers[c].held = <<"config">>
        /\ (callers[c].pc = "returned" /\ callers[c].call # None) =>
              (Len(callers[c].call[1].acquired) = 2 =>
                  callers[c].call[1].acquired = <<"config", "parsed_relays">>)

----------------------------------------------------------------------------
(* The overrides after set_config *)

\* No call of set_config is part-way through, and no call has panicked.
SetConfigCallsCompleted ==
    /\ \A c \in Callers : callers[c].pc # "between"
    /\ poisoned = {}

\* C30: once the calls of set_config have completed, the overrides applied to
\* the catalog are the relay_overrides of the settings that are stored.
C30_OverridesOfStoredSettings ==
    SetConfigCallsCompleted => parsed_relays.overrides = config.relay_overrides

----------------------------------------------------------------------------
(* The hops of a multihop selection *)

\* The relay is an active WireGuard relay that satisfies the providers and the
\* ownership of the query and lies in the location.
HopCandidate(relay, query, location) ==
    /\ relay.active
    /\ relay.endpoint_data = "Wireguard"
    /\ query.ownership = Only("MullvadOwned") => relay.owned
    /\ query.ownership = Only("Rented") => ~relay.owned
    /\ IsOnly(query.providers) => relay.provider \in Unwrap(query.providers)
    /\ SatisfiesLocation(relay, location)

\* The call selected an exit and an entry.
MultihopSelected ==
    /\ QueryRan
    /\ result.outcome.kind = "Wireguard"
    /\ result.outcome.entry # None

\* The candidate sets of the query of the call
ExitSet ==
    {relay \in Catalog :
        HopCandidate(relay, result.constraints[1], result.constraints[1].location)}

EntrySet ==
    {relay \in Catalog :
        HopCandidate(relay, result.constraints[1],
                     result.constraints[1].wireguard_constraints.entry_location)}

\* C23: when multihop selection succeeds, the exit is an exit candidate and
\* the entry is an entry candidate; when there is a single entry candidate, the
\* entry is that relay and the exit is another member of the exit set.
C23_HopsAreCandidates ==
    MultihopSelected =>
        /\ result.outcome.exit[1] \in ExitSet
        /\ result.outcome.entry[1] \in EntrySet
        /\ Cardinality(EntrySet) = 1 =>
              /\ EntrySet = {result.outcome.entry[1]}
              /\ result.outcome.exit[1] \in ExitSet \ EntrySet

\* The single entry candidate was also an exit candidate, and another exit
\* was taken.
C23_Witness ==
    /\ MultihopSelected
    /\ Cardinality(EntrySet) = 1
    /\ EntrySet \subseteq ExitSet
    /\ Cardinality(ExitSet) > 1
    /\ result.outcome.exit[1] \in ExitSet \ EntrySet

----------------------------------------------------------------------------
(* Multihop fails only without a pair *)

\* The call ran a multihop query through the WireGuard arm.
MultihopQueryRan ==
    /\ QueryRan
    /\ result.constraints[1].tunnel_protocol # Only("OpenVpn")
    /\ result.constraints[1].wireguard_constraints.use_multihop = Only(TRUE)

\* The pairs of an exit candidate and a different entry candidate
HopPairs ==
    {pair \in Range(exit_candidates(result.constraints[1], config,
                                    parsed_relays.parsed_list))
              \X Range(entry_candidates(result.constraints[1], config,
                                        parsed_relays.parsed_list)) :
        pair[1] # pair[2]}

\* What get_wireguard_multihop_config can return for the query of the call
MultihopOutcomes ==
    get_wireguard_multihop_config(result.constraints[1], config,
                                  parsed_relays.parsed_list)

\* C24: get_wireguard_multihop_config fails with NoRelay exactly when there is
\* no pair of an exit candidate and a different entry candidate; when there is
\* one, every outcome of the draws is such a pair.
C24_MultihopFailsIffNoPair ==
    MultihopQueryRan =>
        IF HopPairs = {}
        THEN MultihopOutcomes = {None}
        ELSE \A hops \in MultihopOutcomes :
                /\ hops # None
                /\ <<hops[1].exit, hops[1].entry>> \in HopPairs

\* A pair existed although the heavier exit candidate was the only entry
\* candidate, and the call selected two hops.
C24_Witness ==
    /\ MultihopQueryRan
    /\ result.outcome.kind = "Wireguard"
    /\ \E pair \in HopPairs :
          /\ pair[2] = AllRelays[1]
          /\ pair[1].weight = 0
          /\ \A other \in HopPairs : other[2] = pair[2]

----------------------------------------------------------------------------
(* Hidden relays when nothing else matches *)

\* The relays that pass the active, location, ownership, providers and
\* endpoint kind filters of the query of the call, include_in_country aside
Shortlisted ==
    {relay \in Catalog : SatisfiesQuery(relay, result.constraints[1])}

\* C25: when no relay that passes the active, location, ownership, providers
\* and endpoint kind filters has include_in_country set, the requirement is
\* waived: filter_matching_relay_list returns exactly these relays, hidden as
\* they are, and not an empty list.
C25_HiddenRelaysWhenNoneVisible ==
    (QueryRan /\ \A relay \in Shortlisted : ~relay.include_in_country) =>
        TunnelEndpoints = Shortlisted

\* The only relay of the country asked for was a hidden one, and it was
\* returned.
C25_Witness ==
    /\ QueryRan
    /\ CountriesOnly(result.constraints[1].location)
    /\ Shortlisted = {AllRelays[2]}
    /\ TunnelEndpoints = {AllRelays[2]}
    /\ result.outcome.exit = Some(AllRelays[2])

----------------------------------------------------------------------------
(* The roulette wheel (helpers::pick_random_relay_fn) *)

\* The longest slice of relays and the largest weight of a relay
MaxSlice == 3

MaxWeight == 3

\* The weights of the slices that are drawn from
WeightSlices ==
    UNION {[1..n -> 0..MaxWeight] : n \in 0..MaxSlice}

\* A slice of relay 1, relay 2, ... is given with its weights.
InitRoulette ==
    /\ from_list(DefaultConfig, EmptyRelayList)
    /\ \E weights \in WeightSlices :
          result = [op |-> "slice", relays |-> [k \in DOMAIN weights |-> k],
                    weights |-> weights, i |-> 0, picked |-> None,
                    panicked |-> FALSE]
    /\ OneCaller

\* pick_random_relay_fn with the draw i of the RNG
PickRandomRelayFn ==
    /\ result.op = "slice"
    /\ LET total_weight == SumWeights(result.weights, Len(result.relays))
       IN  IF total_weight = 0
           THEN \E picked \in pick_random_relay_fn(result.relays, result.weights) :
                   result' = [result EXCEPT !.op = "picked", !.picked = picked]
           ELSE \E i \in 1..total_weight :
                   result' = [result EXCEPT
                                !.op = "picked", !.i = i,
                                !.picked = roulette_find(result.relays,
                                                         result.weights, i),
                                !.panicked = roulette_find(result.relays,
                                                 result.weights, i) = None]
    /\ UNCHANGED <<config, parsed_relays, callers, poisoned>>

NextRoulette == PickRandomRelayFn

SpecRoulette == InitRoulette /\ [][NextRoulette]_vars

\* The total weight W of the slice
TotalWeight == SumWeights(result.weights, Len(result.relays))

\* The first position whose cumulative weight reaches i
FirstReaching(i) ==
    CHOOSE k \in DOMAIN result.relays :
        /\ SumWeights(result.weights, k) >= i
        /\ \A j \in 1..(k - 1) : SumWeights(result.weights, j) < i

\* C26: pick_random_relay_fn is the roulette wheel.  It returns None exactly
\* for the empty slice.  With a positive total weight W and a draw i in 1..W it
\* returns the first relay whose cumulative weight reaches i, never a relay of
\* weight 0 and never fails to find one, and each relay r is returned for
\* exactly w(r) of the W draws.  With W = 0 every element can be returned.
C26_RouletteWheel ==
    result.op = "picked" =>
        /\ result.picked = None <=> result.relays = <<>>
        /\ TotalWeight > 0 =>
              /\ ~result.panicked
              /\ result.picked = Some(result.relays[FirstReaching(result.i)])
              /\ result.weights[result.picked[1]] > 0
              /\ \A k \in DOMAIN result.relays :
                    Cardinality({i \in 1..TotalWeight :
                        roulette_find(result.relays, result.weights, i)
                            = Some(result.relays[k])}) = result.weights[k]
        /\ (TotalWeight = 0 /\ result.relays # <<>>) =>
              pick_random_relay_fn(result.relays, result.weights)
                  = {Some(result.relays[k]) : k \in DOMAIN result.relays}

\* The draw passed a relay of weight 0 and a relay it did not reach, and
\* stopped at the last relay.
C26_Witness ==
    /\ result.op = "picked"
    /\ result.weights = <<2, 0, 1>>
    /\ result.i = 3
    /\ result.picked = Some(3)

----------------------------------------------------------------------------
(* The intersection of SelectedObfuscation *)

\* The obfuscation of the two filters that were intersected
LeftObfuscation == result.x.wireguard_constraints.obfuscation

RightObfuscation == result.y.wireguard_constraints.obfuscation

\* C27: the SelectedObfuscation intersection returns x for Auto /\ x and for
\* x /\ Auto, x for x /\ x, and None for two distinct values neither of which
\* is Auto (Off with Udp2Tcp, in either order); it is commutative.  The
\* intersection of the two filters carries that value, and fails when there
\* is none.
C27_SelectedObfuscationIntersection ==
    Intersected =>
        LET met == SelectedObfuscationIntersection(LeftObfuscation,
                                                   RightObfuscation)
        IN  /\ RightObfuscation = "Auto" => met = Some(LeftObfuscation)
            /\ LeftObfuscation = "Auto" => met = Some(RightObfuscation)
            /\ LeftObfuscation = RightObfuscation => met = Some(LeftObfuscation)
            /\ ( /\ LeftObfuscation # "Auto"
                 /\ RightObfuscation # "Auto"
                 /\ LeftObfuscation # RightObfuscation ) => met = None
            /\ met = SelectedObfuscationIntersection(RightObfuscation,
                                                     LeftObfuscation)
            /\ met = None => result.x_y = None
            /\ result.x_y # None =>
                  met = Some(result.x_y[1].wireguard_constraints.obfuscation)

\* Off met Udp2Tcp, and the two filters, which differ in nothing else, did not
\* meet.
C27_Witness ==
    /\ Intersected
    /\ LeftObfuscation = "Off"
    /\ RightObfuscation = "Udp2Tcp"
    /\ result.x = [result.y EXCEPT !.wireguard_constraints.obfuscation = "Off"]
    /\ result.x_y = None
    /\ result.y_x = None

----------------------------------------------------------------------------
(* Bridges close to a location (RelaySelector::get_proximate_bridge) *)

\* The largest number of matching bridges
MaxBridges == 6

\* Where the bridges lie (metres): at the reference location, 10.2 km and
\* 10.9 km from it, and around MAX_BRIDGE_DISTANCE
BridgePositions == {0, 10200, 10900, 1500000, 1500400}

\* The k-th bridge, at a position
BridgeAt(k, position) ==
    [Relay("br", "se", "sto", "Bridge", "31173", TRUE, TRUE, 1, TRUE,
           "10.0.1.1", None, 0)
        EXCEPT !.hostname = <<"br", k>>, !.metres = position]

\* The lists of matching bridges, in the order of their positions
BridgeLists ==
    UNION {{[k \in 1..n |-> BridgeAt(k, positions[k])]
                : positions \in {p \in [1..n -> BridgePositions] :
                                    \A k \in 1..(n - 1) : p[k] <= p[k + 1]}}
            : n \in 0..MaxBridges}

\* The matching bridges and the location are given.
InitProximate ==
    /\ from_list(DefaultConfig, EmptyRelayList)
    /\ \E relays \in BridgeLists : \E location \in {0, 300} :
          result = [op |-> "bridges", relays |-> relays, location |-> location,
                    matching_relays |-> <<>>, weights |-> <<>>,
                    bridge |-> None]
    /\ OneCaller

\* get_proximate_bridge(relays, location)
GetProximateBridge ==
    /\ result.op = "bridges"
    /\ \E taken \in take_min_bridge_count(result.relays, result.location) :
          \E bridge \in proximate_bridge_of(taken) :
              result' = [result EXCEPT
                            !.op = "proximate",
                            !.matching_relays = matching_relays_of(taken),
                            !.weights =
                                IF matching_relays_of(taken) = <<>> THEN <<>>
                                ELSE weight_fn(matching_relays_of(taken)),
                            !.bridge = bridge]
    /\ UNCHANGED <<config, parsed_relays, callers, poisoned>>

NextProximate == GetProximateBridge

SpecProximate == InitProximate /\ [][NextProximate]_vars

\* The bridges strictly closer to the reference location than d metres
CloserThan(d) ==
    {b \in Range(result.relays) : distance_from(b, result.location) < d}

\* The greatest distance among the candidates
GreatestCandidateDistance ==
    CHOOSE d \in {x.distance : x \in Range(result.matching_relays)} :
        \A x \in Range(result.matching_relays) : x.distance <= d

\* C28: proximity-biased bridge selection only ever returns a bridge that is
\* among the 5 matching bridges closest to the reference location (fewer than
\* 5 bridges are closer) and at most 1500 km away from it; each remaining
\* candidate gets weight 1 + floor(dmax - d), so every weight is at least 1 and
\* a closer candidate never has a smaller weight than a farther one; if no
\* candidate remains the result is none.
C28_ProximateBridge ==
    result.op = "proximate" =>
        /\ result.bridge # None =>
              /\ result.bridge[1] \in Range(result.relays)
              /\ Cardinality(CloserThan(distance_from(result.bridge[1],
                                                      result.location)))
                    < MIN_BRIDGE_COUNT
              /\ distance_from(result.bridge[1], result.location)
                    <= MAX_BRIDGE_DISTANCE * 1000
        /\ \A k \in DOMAIN result.matching_relays :
              /\ result.weights[k] =
                    1 + ((GreatestCandidateDistance
                            - result.matching_relays[k].distance) \div 1000)
              /\ result.weights[k] >= 1
              /\ \A j \in DOMAIN result.matching_relays :
                    result.matching_relays[j].distance
                        < result.matching_relays[k].distance
                    => result.weights[j] >= result.weights[k]
        /\ result.matching_relays = <<>> => result.bridge = None

====
